---------------------------- MODULE Spec2Model ----------------------------
(***************************************************************************)
(* A model of the DINO packfile code of rpmtoys: dino/varint.py,           *)
(* dino/struct.py (StringTable, Dhdrp, Shdrp), dino/section.py             *)
(* (IndexSection), dino/__init__.py (DINO) and mkdino.py (merge_rpms).     *)
(*                                                                         *)
(* Each component has its own specification; the variables of the other    *)
(* components stay at their idle values.                                   *)
(***************************************************************************)
EXTENDS Integers, Sequences, FiniteSets, TLC

VARIABLES
    \* dino/varint.py
    vi_pc,      \* "init" | "encoded" | "decoded"
    vi_in,      \* the integer handed to varint_encode (base-128 digits)
    vi_enc,     \* the bytes varint_encode returned
    vi_dec,     \* what varint_decode returned on vi_enc
    \* dino/struct.py: StringTable
    st_pc,      \* "ready" | "added"
    st_data,    \* StringTable._data: the heap bytes
    st_ends,    \* StringTable._ends: the terminator positions kept
    st_first,   \* history: <<s, offset>> for the first add(s) of each s
    st_arg,     \* the argument of the last add
    st_ret,     \* what the last add returned
    st_before,  \* the heap bytes before the last add
    st_known,   \* whether the argument of the last add was added before
    st_n,       \* the number of add calls so far
    \* dino/section.py: IndexSection
    ix_pc,      \* "build" | "written" | "read"
    ix_cfg,     \* keysize, fanout, varint, unc_size: the section's settings
    ix_data,    \* IndexSection._data: <<key, value>> in insertion order
    ix_n,       \* the number of add calls so far
    ix_out,     \* the bytes write_to wrote
    ix_keys,    \* the keys write_to emitted, in order
    ix_vals,    \* the value tuples write_to emitted, in order
    ix_wrote,   \* what write_to returned
    ix_read,    \* from_file on ix_out: the error raised and the _data read
    ix_last,    \* the last add of a key of another width: key, _data before
    \* dino/__init__.py: DINO
    dn_pc,      \* "build" | "written" | "read" | "packed" | "dhdr"
    dn_enc,     \* DINO.encoding
    dn_sectab,  \* DINO.sectab: the section objects
    dn_namtab,  \* DINO.namtab: the StringTable of section names
    dn_file,    \* the file write_to wrote, or the bytes pack_dhdr returned
    dn_err,     \* the error write_to or pack_dhdr raised
    dn_in,      \* the bytes handed to from_file or read_dhdr
    dn_read,    \* from_file / read_dhdr: the error raised, the sections read
    mg_pc,      \* merge_rpms: "new", "run", "failed", "done", "extracted",
                \* or "looked" after get_compressor and get_decompressor
    mg_which,   \* the compression id or name handed in
    mg_cz,      \* what get_compressor and get_decompressor gave for it
    mg_count,   \* count: the packages taken from rpmiter
    mg_fileidx, \* d.fileidx: the entries of the file index
    mg_filedata,\* d.filedata.fobj: the bytes of the file data section
    mg_rpmidx,  \* d.rpmidx: the entries of the package index
    mg_rpmhdr,  \* d.rpmhdr.fobj: the bytes of the header section
    mg_outfile, \* the file at the output path
    mg_outfile0,\* the file at the output path when merge_rpms was called
    mg_err,     \* the exception that ended merge_rpms
    mg_last,    \* the package of the last pass of the loop
    mg_seen,    \* the contents of the files verified so far
    mg_prev,    \* the package index and header section before the last pass
    mg_x,       \* get_rpmhdr and _write_rpm_payload: what they gave
    \* struct.Struct: integer fields
    wd_pc,      \* "new" | "packed"
    wd_args,    \* what was handed to pack
    wd_out,     \* the bytes pack gave, or the error it raised
    \* rpmtoys/vercmp.py: rpmvercmp
    vc_pc,      \* "new" | "compared"
    vc_a,       \* the first version string
    vc_b,       \* the second version string
    vc_r,       \* the results of rpmvercmp(a, b), (b, a) and (a, a)
    \* dino/util.py: copy_stream
    cp_pc,      \* "new" | "copied"
    cp_inf,     \* the bytes of the source stream
    cp_blocksize, \* the block size
    cp_done,    \* what copy_stream was asked for, wrote, read and returned
    \* dino/fileview.py: FileView
    fv_pc,      \* "new" | "reading" | "copying" | "copied"
    fv_view,    \* the view: the file, where it stands, base, size, offset
    fv_blocksize, \* the block size of copy_stream
    fv_chunks,  \* what each read gave, in order
    fv_copy,    \* write_to: what is left, the count and bytes written
    \* dino/section.py: IndexInfo
    ii_pc,      \* "new" | "packed" | "unpacked"
    ii_info,    \* the IndexInfo
    ii_int,     \* what to_int gave, or the error it raised
    ii_back,    \* what from_int gave
    ii_sec,     \* from_hdr: the error raised, the section othersec gave
    \* dino/section.py: sectionclass
    sc_pc,      \* "run"
    sc_typeid,  \* the type id looked up
    sc_bytesfirst, \* this run's order of the two classes of type Blob
    sc_calls,   \* what each call of sectionclass gave, over the runs
    \* dino/section.py: BlobSection
    bs_pc,      \* "open"
    bs_store,   \* the backing store: its bytes, its position, on disk or not
    bs_blocksize, \* the block size of copy_stream
    bs_last,    \* the last operation, the store before it, what it gave
    bs_n,       \* the count of size and write_to calls so far
    \* dino/compression.py, mkdino.py: compressed frames and their index
    fr_pc,      \* "open"
    fr_unz,     \* the one decompressor object of the archive
    fr_read_size, \* the chunk size of copy_stream
    fr_store,   \* the bytes of the data section
    fr_index,   \* the entries: offset, size, usize (and the content stored)
    fr_got,     \* what the last write_file gave
    fr_reads    \* the count of write_file calls so far

varintVars == <<vi_pc, vi_in, vi_enc, vi_dec>>

strtabVars == <<st_pc, st_data, st_ends, st_first, st_arg, st_ret,
                st_before, st_known, st_n>>

indexVars == <<ix_pc, ix_cfg, ix_data, ix_n, ix_out, ix_keys, ix_vals,
               ix_wrote, ix_read, ix_last>>

dinoVars == <<dn_pc, dn_enc, dn_sectab, dn_namtab, dn_file, dn_err, dn_in,
              dn_read>>

mergeVars == <<mg_pc, mg_which, mg_cz, mg_count, mg_fileidx, mg_filedata,
               mg_rpmidx, mg_rpmhdr, mg_outfile, mg_outfile0, mg_err, mg_last,
               mg_seen, mg_prev, mg_x>>

wideVars == <<wd_pc, wd_args, wd_out>>

vercmpVars == <<vc_pc, vc_a, vc_b, vc_r>>

copyVars == <<cp_pc, cp_inf, cp_blocksize, cp_done>>

viewVars == <<fv_pc, fv_view, fv_blocksize, fv_chunks, fv_copy>>

infoVars == <<ii_pc, ii_info, ii_int, ii_back, ii_sec>>

dispatchVars == <<sc_pc, sc_typeid, sc_bytesfirst, sc_calls>>

blobVars == <<bs_pc, bs_store, bs_blocksize, bs_last, bs_n>>

frameVars == <<fr_pc, fr_unz, fr_read_size, fr_store, fr_index, fr_got, fr_reads>>

vars == <<vi_pc, vi_in, vi_enc, vi_dec,
          st_pc, st_data, st_ends, st_first, st_arg, st_ret,
          st_before, st_known, st_n,
          ix_pc, ix_cfg, ix_data, ix_n, ix_out, ix_keys, ix_vals,
          ix_wrote, ix_read, ix_last,
          dn_pc, dn_enc, dn_sectab, dn_namtab, dn_file, dn_err, dn_in,
          dn_read,
          mg_pc, mg_which, mg_cz, mg_count, mg_fileidx, mg_filedata,
          mg_rpmidx, mg_rpmhdr, mg_outfile, mg_outfile0, mg_err, mg_last,
          mg_seen, mg_prev, mg_x,
          wd_pc, wd_args, wd_out,
          vc_pc, vc_a, vc_b, vc_r,
          cp_pc, cp_inf, cp_blocksize, cp_done,
          fv_pc, fv_view, fv_blocksize, fv_chunks, fv_copy,
          ii_pc, ii_info, ii_int, ii_back, ii_sec,
          sc_pc, sc_typeid, sc_bytesfirst, sc_calls,
          bs_pc, bs_store, bs_blocksize, bs_last, bs_n,
          fr_pc, fr_unz, fr_read_size, fr_store, fr_index, fr_got, fr_reads>>

---------------------------------------------------------------------------
(* Generic helpers                                                         *)

Range(s) == {s[i] : i \in DOMAIN s}

Min2(a, b) == IF a <= b THEN a ELSE b

RECURSIVE Concat(_)
Concat(ss) == IF ss = <<>> THEN <<>> ELSE Head(ss) \o Concat(Tail(ss))

---------------------------------------------------------------------------
(* dino/varint.py                                                          *)
(*                                                                         *)
(* Python integers are unbounded and uintmax is 64 bits wide, which is     *)
(* more than TLC's integers hold.  An integer is therefore a sequence of   *)
(* NDigits base-128 digits, least significant first; bit k of the integer  *)
(* is bit (k % 7) of digit (k \div 7) + 1.                                 *)

VARINT_NBITS == 64

VARINT_MAXLEN == (VARINT_NBITS \div 7) + 1

\* One digit more than a uintmax needs, so that the decoder's Python
\* integer can exceed 64 bits without being cut.
NDigits == VARINT_MAXLEN + 1

Digit == 0..127

BigZero == [i \in 1..NDigits |-> 0]

BigIsZero(v) == \A i \in 1..NDigits : v[i] = 0

\* val & 127
BigLow7(v) == v[1]

\* val >> 7
BigShr7(v) == [i \in 1..NDigits |-> IF i < NDigits THEN v[i+1] ELSE 0]

\* (val << 7) + b, for 0 <= b < 128
BigShl7Add(v, b) == [i \in 1..NDigits |-> IF i = 1 THEN b ELSE v[i-1]]

\* val - 1, for val > 0: borrow through the low zero digits
BigDec(v) ==
    LET k == CHOOSE i \in 1..NDigits :
                 v[i] # 0 /\ \A j \in 1..(i-1) : v[j] = 0
    IN  [i \in 1..NDigits |->
            IF i < k THEN 127 ELSE IF i = k THEN v[i] - 1 ELSE v[i]]

\* val + 1: carry through the low 127 digits
BigInc(v) ==
    LET k == CHOOSE i \in 1..NDigits :
                 v[i] # 127 /\ \A j \in 1..(i-1) : v[j] = 127
    IN  [i \in 1..NDigits |->
            IF i < k THEN 0 ELSE IF i = k THEN v[i] + 1 ELSE v[i]]

\* a > b
BigGreater(a, b) ==
    \E i \in 1..NDigits :
        a[i] > b[i] /\ \A j \in (i+1)..NDigits : a[j] = b[j]

\* A small natural number as a digit sequence.
BigOfNat(n) ==
    [i \in 1..NDigits |->
        IF i = 1 THEN n % 128
        ELSE IF i = 2 THEN (n \div 128) % 128
        ELSE IF i = 3 THEN (n \div 16384) % 128
        ELSE IF i = 4 THEN (n \div 2097152) % 128
        ELSE IF i = 5 THEN (n \div 268435456) % 128
        ELSE 0]

\* The natural number a digit sequence stands for, when it is below 2^31.
BigFitsNat(v) == (\A i \in 6..NDigits : v[i] = 0) /\ v[5] < 8

BigToNat(v) ==
    v[1] + 128 * v[2] + 16384 * v[3] + 2097152 * v[4] + 268435456 * v[5]

\* uintmax(val).value: the low 64 bits.  Bit 63 is bit 0 of digit 10.
ToUintmax(v) ==
    [i \in 1..NDigits |->
        IF i < VARINT_MAXLEN THEN v[i]
        ELSE IF i = VARINT_MAXLEN THEN v[i] % 2
        ELSE 0]

\* VARINT_MAXVAL = uintmax(~0).value = 2^64 - 1
VARINT_MAXVAL ==
    [i \in 1..NDigits |->
        IF i < VARINT_MAXLEN THEN 127 ELSE IF i = VARINT_MAXLEN THEN 1 ELSE 0]

\* VARINT_MAXVAL_WIDTH[w] = 0x80 + 0x4000 + ... + 128^w - 1: the digits
\* <<127, 0, 1, ..., 1>> with the last 1 at digit w + 1.
VARINT_MAXVAL_WIDTH ==
    [w \in 1..(VARINT_MAXLEN - 1) |->
        [i \in 1..NDigits |->
            IF i = 1 THEN 127
            ELSE IF i = 2 THEN 0
            ELSE IF i <= w + 1 THEN 1
            ELSE 0]]

\* val & VARINT_MS7B_MASK, the mask being 127 << (VARINT_NBITS - 7): bits
\* 57..63, which are bits 1..6 of digit 9 and bit 0 of digit 10.
HasMS7B(v) == (v[VARINT_MAXLEN - 1] \div 2 # 0) \/ (v[VARINT_MAXLEN] % 2 # 0)

\* The "val -= 1" of the encoder's loop.
EncDecrementSkipped(val) == val

EncDecrement(val) == BigDec(val)

\* The while loop of varint_encode: acc is varint[pos:].
RECURSIVE EncLoop(_, _)
EncLoop(val, acc) ==
    IF BigIsZero(val) THEN acc
    ELSE LET v1 == EncDecrement(val)
         IN  EncLoop(BigShr7(v1), <<128 + BigLow7(v1)>> \o acc)

varint_encode(val) ==
    LET u == ToUintmax(val)
    IN  EncLoop(BigShr7(u), <<BigLow7(u)>>)

\* The while loop of varint_decode; b is the byte read last, n the count of
\* bytes read.  Reading past the end of the bytes is an IndexError.
RECURSIVE DecLoop(_, _, _, _)
DecLoop(varint, b, val, n) ==
    IF b < 128 THEN [err |-> "none", val |-> val, n |-> n]
    ELSE IF HasMS7B(val) THEN [err |-> "ValueError", val |-> BigZero, n |-> 0]
    ELSE IF n + 1 > Len(varint)
         THEN [err |-> "IndexError", val |-> BigZero, n |-> 0]
    ELSE LET b1 == varint[n + 1]
         IN  DecLoop(varint, b1, BigShl7Add(BigInc(val), b1 % 128), n + 1)

varint_decode(varint) ==
    IF varint = <<>> THEN [err |-> "IndexError", val |-> BigZero, n |-> 0]
    ELSE DecLoop(varint, varint[1], BigOfNat(varint[1] % 128), 1)

\* The inputs: every uintmax whose base-128 digits are 0, 1 or 127.  They
\* include 0, the nine VARINT_MAXVAL_WIDTH values, their successors and
\* VARINT_MAXVAL.
DigitSamples == {0, 1, 127}

VarintInputs ==
    {v \in [1..NDigits -> DigitSamples] :
        v[NDigits] = 0 /\ v[VARINT_MAXLEN] \in {0, 1}}

VarintStart ==
    /\ vi_pc = "init"
    /\ vi_in \in VarintInputs
    /\ vi_enc = <<>>
    /\ vi_dec = [err |-> "none", val |-> BigZero, n |-> 0]

VarintIdle ==
    /\ vi_pc = "idle"
    /\ vi_in = BigZero
    /\ vi_enc = <<>>
    /\ vi_dec = [err |-> "none", val |-> BigZero, n |-> 0]

VarintEncode ==
    /\ vi_pc = "init"
    /\ vi_enc' = varint_encode(vi_in)
    /\ vi_pc' = "encoded"
    /\ UNCHANGED <<vi_in, vi_dec>>

VarintDecode ==
    /\ vi_pc = "encoded"
    /\ vi_dec' = varint_decode(vi_enc)
    /\ vi_pc' = "decoded"
    /\ UNCHANGED <<vi_in, vi_enc>>


---------------------------------------------------------------------------
(* dino/struct.py: StringTable                                             *)
(*                                                                         *)
(* A string is a sequence of code points; the heap is a sequence of bytes. *)

\* s.encode('utf8') for code points below 0x800.
Utf8Char(c) ==
    IF c < 128 THEN <<c>> ELSE <<192 + (c \div 64), 128 + (c % 64)>>

RECURSIVE Utf8(_)
Utf8(s) == IF s = <<>> THEN <<>> ELSE Utf8Char(Head(s)) \o Utf8(Tail(s))

\* bytes.find(b): the lowest 0-based index at which b occurs, or -1.
OccursAt(data, b, i) ==
    /\ i >= 0
    /\ i + Len(b) <= Len(data)
    /\ \A k \in 1..Len(b) : data[i + k] = b[k]

RECURSIVE FindFrom(_, _, _)
FindFrom(data, b, i) ==
    IF i + Len(b) > Len(data) THEN -1
    ELSE IF OccursAt(data, b, i) THEN i
    ELSE FindFrom(data, b, i + 1)

BytesFind(data, b) == FindFrom(data, b, 0)

\* StringTable.iter_ends: the positions of the NUL bytes of the heap.
RECURSIVE IterEnds(_, _)
IterEnds(data, start) ==
    LET end == FindFrom(data, <<0>>, start)
    IN  IF end = -1 THEN <<>> ELSE <<end>> \o IterEnds(data, end + 1)

\* StringTable.__init__(data): _data = data or bytearray()
StringTableNew(data) == [data |-> data, ends |-> IterEnds(data, 0)]

\* StringTable.size
StringTableSize(t) == Len(t.data)

\* StringTable.add that appends whatever the heap holds.
StringTableAddAlways(t, s) ==
    LET b == Utf8(s) \o <<0>>
    IN  [data |-> t.data \o b,
         ends |-> Append(t.ends, Len(t.data) + Len(b) - 1),
         ret  |-> Len(t.data)]

\* StringTable.add(s): the table after the call and the offset returned.
StringTableAdd(t, s) ==
    LET b == Utf8(s) \o <<0>>
        i == BytesFind(t.data, b)
    IN  IF i = -1
        THEN [data |-> t.data \o b,
              ends |-> Append(t.ends, Len(t.data) + Len(b) - 1),
              ret  |-> Len(t.data)]
        ELSE [data |-> t.data, ends |-> t.ends, ret |-> i]

\* StringTable.pack
StringTablePack(t) == t.data

\* bytes.decode('utf8') of one- and two-byte characters.
RECURSIVE Utf8Decode(_)
Utf8Decode(b) ==
    IF b = <<>> THEN [err |-> "none", val |-> <<>>]
    ELSE IF b[1] < 128
    THEN LET r == Utf8Decode(Tail(b))
         IN  [r EXCEPT !.val = <<b[1]>> \o @]
    ELSE IF b[1] \in 194..223 /\ Len(b) >= 2 /\ b[2] \in 128..191
    THEN LET r == Utf8Decode(SubSeq(b, 3, Len(b)))
         IN  [r EXCEPT !.val = <<(b[1] - 192) * 64 + (b[2] - 128)>> \o @]
    ELSE [err |-> "UnicodeDecodeError", val |-> <<>>]

\* bisect_left(a, x): the count of elements of the sorted list below x.
BisectLeft(a, x) == Cardinality({k \in 1..Len(a) : a[k] < x})

\* StringTable.get(i): the string, None past the end of the heap, or the
\* error raised.
StringTableGet(t, i) ==
    IF ~(i < StringTableSize(t)) THEN [err |-> "none", val |-> "None"]
    ELSE LET k == BisectLeft(t.ends, i)
         IN  IF k >= Len(t.ends) THEN [err |-> "IndexError", val |-> <<>>]
             ELSE Utf8Decode(SubSeq(t.data, i + 1, t.ends[k + 1]))

\* The strings handed to add: with one being a proper suffix of another
\* ("b" of "ab", "" of all), one holding a two-byte character and one
\* holding a NUL character.
StrSamples ==
    {<<>>, <<97>>, <<98>>, <<97, 98>>, <<98, 97>>, <<97, 97, 98>>,
     <<233>>, <<98, 233>>, <<97, 0, 98>>}

MaxAdds == 3

StrTabStart ==
    /\ st_pc = "ready"
    /\ st_data = StringTableNew(<<>>).data
    /\ st_ends = StringTableNew(<<>>).ends
    /\ st_first = {}
    /\ st_arg = <<>>
    /\ st_ret = 0
    /\ st_before = <<>>
    /\ st_known = FALSE
    /\ st_n = 0

StrTabIdle ==
    /\ st_pc = "idle"
    /\ st_data = <<>>
    /\ st_ends = <<>>
    /\ st_first = {}
    /\ st_arg = <<>>
    /\ st_ret = 0
    /\ st_before = <<>>
    /\ st_known = FALSE
    /\ st_n = 0

StrTabAdd ==
    /\ st_pc \in {"ready", "added"}
    /\ st_n < MaxAdds
    /\ \E s \in StrSamples :
          LET r == StringTableAdd([data |-> st_data, ends |-> st_ends], s)
              known == \E p \in st_first : p[1] = s
          IN  /\ st_data' = r.data
              /\ st_ends' = r.ends
              /\ st_ret' = r.ret
              /\ st_arg' = s
              /\ st_before' = st_data
              /\ st_known' = known
              /\ st_first' = IF known THEN st_first
                             ELSE st_first \cup {<<s, r.ret>>}
    /\ st_pc' = "added"
    /\ st_n' = st_n + 1

\* The offset add(s) returned the first time.
FirstOffset(s) == (CHOOSE p \in st_first : p[1] = s)[2]

\* Whether the encoded string with its terminator occurs in the heap.
Occurs(data, b) == \E i \in 0..Len(data) : OccursAt(data, b, i)

\* C8 as claimed: a string added before gets its first offset back and the
\* heap is unchanged; a string never added is appended with one NUL at the
\* end of the heap and add returns the heap size before the call.
C8_AsClaimed ==
    st_pc = "added" =>
        IF st_known
        THEN st_ret = FirstOffset(st_arg) /\ st_data = st_before
        ELSE /\ st_data = st_before \o Utf8(st_arg) \o <<0>>
             /\ st_ret = Len(st_before)

\* C8 (amended): for NUL-free strings, a string added before gets its
\* first offset back and the heap is unchanged; a string whose bytes plus
\* terminator already occur anywhere in the heap (such as a suffix of an
\* added string) gets the offset of the first occurrence and the heap is
\* unchanged; only a string whose bytes plus terminator occur nowhere in
\* the heap is appended, with one NUL, and gets the old heap size.
C8_AddContract ==
    st_pc = "added" =>
        LET b == Utf8(st_arg) \o <<0>>
        IN  /\ st_known =>
                  st_ret = FirstOffset(st_arg) /\ st_data = st_before
            /\ Occurs(st_before, b) =>
                  /\ st_data = st_before
                  /\ OccursAt(st_before, b, st_ret)
                  /\ \A i \in 0..(st_ret - 1) : ~OccursAt(st_before, b, i)
            /\ ~Occurs(st_before, b) =>
                  /\ st_data = st_before \o b
                  /\ st_ret = Len(st_before)

\* A string never added before was found in the heap as the tail of another
\* string, and a string added before was added again.
C8_Witness ==
    /\ st_pc = "added"
    /\ ~st_known
    /\ st_data = st_before
    /\ st_ret > 0
    /\ \E p \in st_first : p[1] # st_arg /\ p[2] < st_ret

\* C23 (name references stay valid): after any sequence of add calls,
\* get(o) gives s for every offset o that an add(s) returned, and the
\* list of terminator positions is strictly ascending and is the set of
\* the positions of the NUL bytes of the heap.
C23_NameReferences ==
    st_pc = "added" =>
        LET t == [data |-> st_data, ends |-> st_ends]
        IN  /\ \A p \in st_first \cup {<<st_arg, st_ret>>} :
                  StringTableGet(t, p[2]) = [err |-> "none", val |-> p[1]]
            /\ \A k \in 1..(Len(st_ends) - 1) : st_ends[k] < st_ends[k + 1]
            /\ {st_ends[k] : k \in 1..Len(st_ends)}
                  = {i - 1 : i \in {j \in 1..Len(st_data) : st_data[j] = 0}}

---------------------------------------------------------------------------
(* struct.Struct: fixed-width packing                                      *)

\* Struct('<I').pack(n) for 0 <= n < 2^31.
PackU32LE(n) ==
    <<n % 256, (n \div 256) % 256, (n \div 65536) % 256,
      (n \div 16777216) % 256>>

\* Struct('<I').unpack(b)[0], when the value is below 2^31.
UnpackU32LE(b) == b[1] + 256 * b[2] + 65536 * b[3] + 16777216 * b[4]

\* Struct('<I...I').pack(*v): the fields one after the other.
RECURSIVE PackTupleLE(_)
PackTupleLE(v) ==
    IF v = <<>> THEN <<>> ELSE PackU32LE(Head(v)) \o PackTupleLE(Tail(v))

\* One record of Struct('<I...I').iter_unpack: nfields fields from offset.
UnpackTupleLE(b, off, nfields) ==
    [f \in 1..nfields |-> UnpackU32LE(SubSeq(b, off + 4*(f-1) + 1, off + 4*f))]

\* Struct('<H').pack(n)
PackU16LE(n) == <<n % 256, n \div 256>>

\* An integer that may be 2^32 or more: hi * 2^16 + lo, lo below 2^16.
WideInt(hi, lo) == [hi |-> hi, lo |-> lo]

WideOf(n) == WideInt(n \div 65536, n % 65536)

\* The value is 2^32 or more.
WideOverflows(w) == w.hi >= 65536

\* 'I' packed without a range test: the low 32 bits.
StructPackIWrap(w) ==
    [err |-> "none", out |-> PackU16LE(w.lo) \o PackU16LE(w.hi % 65536)]

\* Struct('<I').pack(v): struct.error unless 0 <= v < 2^32.
StructPackI(w) ==
    IF WideOverflows(w) THEN [err |-> "struct.error", out |-> <<>>]
    ELSE [err |-> "none", out |-> PackU16LE(w.lo) \o PackU16LE(w.hi)]

\* Struct('<I').unpack(b)[0]
StructUnpackI(b) == WideInt(b[3] + 256 * b[4], b[1] + 256 * b[2])

\* Struct('<I...I').pack(*v): the first field out of range raises.
RECURSIVE StructPackIs(_)
StructPackIs(v) ==
    IF v = <<>> THEN [err |-> "none", out |-> <<>>]
    ELSE IF StructPackI(Head(v)).err # "none" THEN StructPackI(Head(v))
    ELSE IF StructPackIs(Tail(v)).err # "none" THEN StructPackIs(Tail(v))
    ELSE [err |-> "none",
          out |-> StructPackI(Head(v)).out \o StructPackIs(Tail(v)).out]

\* Shdrp._struct.pack(name_idx, typeid, flags, info, size, count) of
\* BaseSection.pack_hdr: '<HBBIII'.
ShdrPack(name_idx, typeid, flags, info, size, count) ==
    IF name_idx > 65535 \/ typeid > 255 \/ flags > 255
    THEN [err |-> "struct.error", out |-> <<>>]
    ELSE IF StructPackIs(<<info, size, count>>).err # "none"
    THEN StructPackIs(<<info, size, count>>)
    ELSE [err |-> "none",
          out |-> PackU16LE(name_idx) \o <<typeid, flags>>
                  \o StructPackIs(<<info, size, count>>).out]

\* self._val_s.pack(*v) of IndexSection.write_to: '<II' or '<III'.
ValStructPack(v) == StructPackIs(v)

\* Struct('<n>s').pack(key): cut to n bytes, or padded with NULs.
PackKey(key, n) == [i \in 1..n |-> IF i <= Len(key) THEN key[i] ELSE 0]

\* bytes < bytes: unsigned, byte by byte, a proper prefix being lower.
BytesLess(a, b) ==
    \/ \E i \in 1..Min2(Len(a), Len(b)) :
           a[i] < b[i] /\ \A j \in 1..(i-1) : a[j] = b[j]
    \/ Len(a) < Len(b) /\ \A j \in 1..Len(a) : a[j] = b[j]

---------------------------------------------------------------------------
(* dino/section.py: IndexSection                                           *)

\* The key width of the index (keysize).
KeySize == 2

\* The number of add calls.
MaxEntries == 2

\* range(256): the byte values a fanout table covers.
FanoutEntries == 256

\* Struct(f'{endian}256I').size
FanoutStructSize == FanoutEntries * 4

\* Struct(valfmt).size: 3 or 2 fields of 4 bytes.
ValFields(cfg) == IF cfg.unc_size THEN 3 ELSE 2

ValStructSize(cfg) == 4 * ValFields(cfg)

\* dict lookup: the position of key in the insertion-ordered items, or 0.
ItemIndex(data, key) ==
    IF \E i \in 1..Len(data) : data[i][1] = key
    THEN CHOOSE i \in 1..Len(data) : data[i][1] = key
    ELSE 0

\* self._data[k] = v: a new key goes last, a known key keeps its place.
DictSet(data, k, v) ==
    LET i == ItemIndex(data, k)
    IN  IF i = 0 THEN Append(data, <<k, v>>)
        ELSE [data EXCEPT ![i] = <<k, v>>]

\* IndexSection.add3 / add2 (add is one or the other, by unc_size).
IndexAdd(cfg, data, key, offset, size, uncsize) ==
    IF cfg.unc_size
    THEN DictSet(data, PackKey(key, cfg.keysize), <<offset, size, uncsize>>)
    ELSE DictSet(data, PackKey(key, cfg.keysize), <<offset, size>>)

\* IndexSection.get(key, default=None)
IndexGet(data, key) ==
    LET i == ItemIndex(data, key)
    IN  IF i = 0 THEN "None" ELSE data[i][2]

\* IndexSection.__contains__
IndexContains(data, key) == ItemIndex(data, key) # 0

\* IndexSection.count
IndexCount(data) == Len(data)

\* Counter(k[0] for k in self.keys())[b]
FirstByteCount(data, b) ==
    Cardinality({i \in 1..Len(data) : data[i][1][1] = b})

\* The running sums of make_fanout, fanout[i+1] = fanout[i] + counts[i],
\* for i in first..(stop-1); acc holds fanout[1..first].
RECURSIVE FanoutRun(_, _, _, _)
FanoutRun(data, i, stop, acc) ==
    IF i = stop THEN acc
    ELSE LET prev == IF i = 0 THEN 0 ELSE acc[i]
             next == Append(acc, prev + FirstByteCount(data, i))
         IN  IF Len(next) = i + 1 THEN FanoutRun(data, i + 1, stop, next)
             ELSE <<>>

\* The loop of make_fanout over range(256), taken 16 entries at a time.
RECURSIVE FanoutLoop(_, _, _)
FanoutLoop(data, i, acc) ==
    IF i = FanoutEntries THEN acc
    ELSE LET next == FanoutRun(data, i, i + 16, acc)
         IN  IF Len(next) = i + 16 THEN FanoutLoop(data, i + 16, next)
             ELSE <<>>

\* A fanout that gives each byte its own count, not the running count.
FanoutTableNotCumulative(data) ==
    [i \in 1..FanoutEntries |-> FirstByteCount(data, i - 1)]

\* fanout[1:] of make_fanout (fixed-width encoding).
FanoutTable(data) == FanoutLoop(data, 0, <<>>)

\* self._fanout_s.pack(*table)
PackFanout(table) ==
    [i \in 1..FanoutStructSize |->
        PackU32LE(table[((i - 1) \div 4) + 1])[((i - 1) % 4) + 1]]

\* b''.join(parts[lo..hi]), joined by halves.
RECURSIVE JoinRange(_, _, _)
JoinRange(parts, lo, hi) ==
    IF lo > hi THEN <<>>
    ELSE IF lo = hi THEN parts[lo]
    ELSE LET mid == (lo + hi) \div 2
         IN  JoinRange(parts, lo, mid) \o JoinRange(parts, mid + 1, hi)

\* self._varint_pack(*values)
VarintPack(values) ==
    JoinRange([i \in 1..Len(values) |-> varint_encode(BigOfNat(values[i]))],
              1, Len(values))

\* IndexSection.make_fanout
make_fanout(cfg, data) ==
    IF cfg.varint
    THEN VarintPack([i \in 1..FanoutEntries |-> FirstByteCount(data, i - 1)])
    ELSE PackFanout(FanoutTable(data))

\* sorted(self.items()) with the sort left out.
SortedItemsUnsorted(items) == items

\* sorted(self.items()): ascending by key bytes (the keys are distinct).
RECURSIVE SortedItems(_)
SortedItems(items) ==
    IF items = <<>> THEN <<>>
    ELSE LET m == CHOOSE i \in 1..Len(items) :
                      \A j \in 1..Len(items) :
                          j # i => BytesLess(items[i][1], items[j][1])
         IN  <<items[m]>> \o
             SortedItems([k \in 1..(Len(items) - 1) |->
                             IF k < m THEN items[k] ELSE items[k + 1]])

\* valpack(*v): varint or fixed-width.
ValPack(cfg, v) == IF cfg.varint THEN VarintPack(v) ELSE PackTupleLE(v)

\* IndexSection.write_to: the bytes written, the keys and values in the
\* order of the two loops, and the count of bytes returned.
IndexWriteTo(cfg, data) ==
    IF IndexCount(data) = 0
    THEN [out |-> <<>>, keys |-> <<>>, vals |-> <<>>, wrote |-> 0]
    ELSE LET fan    == IF cfg.fanout THEN make_fanout(cfg, data) ELSE <<>>
             sorted == SortedItems(data)
             keys   == [i \in 1..Len(sorted) |-> sorted[i][1]]
             vals   == [i \in 1..Len(sorted) |-> sorted[i][2]]
             kbytes == Concat([i \in 1..Len(keys) |-> PackKey(keys[i], cfg.keysize)])
             vbytes == Concat([i \in 1..Len(vals) |-> ValPack(cfg, vals[i])])
             out    == fan \o kbytes \o vbytes
         IN  [out |-> out, keys |-> keys, vals |-> vals, wrote |-> Len(out)]

\* varint_iter_decode(data) with no maxcount: every varint up to the end.
RECURSIVE VarintIterDecode(_, _)
VarintIterDecode(data, pos) ==
    IF pos >= Len(data) THEN [err |-> "none", vals |-> <<>>]
    ELSE LET d == varint_decode(SubSeq(data, pos + 1, Len(data)))
         IN  IF d.err # "none" THEN [err |-> d.err, vals |-> <<>>]
             ELSE LET rest == VarintIterDecode(data, pos + d.n)
                  IN  IF rest.err # "none" THEN rest
                      ELSE [err |-> "none",
                            vals |-> <<BigToNat(d.val)>> \o rest.vals]

\* dict(zip(keys, vals)): pairs up to the shorter list, a repeated key
\* keeping its first place and taking the last value.
RECURSIVE DictOfZip(_, _, _)
DictOfZip(keys, vals, acc) ==
    IF keys = <<>> \/ vals = <<>> THEN acc
    ELSE DictOfZip(Tail(keys), Tail(vals), DictSet(acc, Head(keys), Head(vals)))

\* The part of IndexSection.from_file after the fanout: keys, then values.
IndexReadBody(cfg, data, count, keypos) ==
    LET keylen  == cfg.keysize * count
        valpos  == keypos + keylen
        keydata == SubSeq(data, keypos + 1, Min2(valpos, Len(data)))
        valdata == SubSeq(data, valpos + 1, Len(data))
    IN  IF cfg.keysize = 0 \/ Len(keydata) % cfg.keysize # 0
        THEN [err |-> "struct.error", data |-> <<>>]
        ELSE
        LET keys == [i \in 1..(Len(keydata) \div cfg.keysize) |->
                        SubSeq(keydata, cfg.keysize*(i-1) + 1, cfg.keysize*i)]
        IN  IF cfg.varint
            THEN LET dec == VarintIterDecode(valdata, 0)
                 IN  IF dec.err # "none" THEN [err |-> dec.err, data |-> <<>>]
                     ELSE IF count = 0
                     THEN [err |-> "ZeroDivisionError", data |-> <<>>]
                     ELSE IF Len(dec.vals) % count # 0
                     THEN [err |-> "AssertionError", data |-> <<>>]
                     ELSE LET n == Len(dec.vals) \div count
                              vals == IF n = 0 THEN <<>>
                                      ELSE [i \in 1..count |->
                                              SubSeq(dec.vals, n*(i-1) + 1, n*i)]
                          IN  [err |-> IF n = 0 THEN "ValueError" ELSE "none",
                               data |-> DictOfZip(keys, vals, <<>>)]
            ELSE IF Len(valdata) % ValStructSize(cfg) # 0
                 THEN [err |-> "struct.error", data |-> <<>>]
                 ELSE LET vals == [i \in 1..(Len(valdata) \div ValStructSize(cfg)) |->
                                     UnpackTupleLE(valdata,
                                                   ValStructSize(cfg)*(i-1),
                                                   ValFields(cfg))]
                      IN  [err |-> "none", data |-> DictOfZip(keys, vals, <<>>)]

\* IndexSection.from_file(fobj, size, count) on a file holding `file` from
\* the current position on: the error raised ("none" if none) and _data.
IndexFromFile(cfg, file, size, count) ==
    IF size = 0 THEN [err |-> "none", data |-> <<>>]
    ELSE
    LET data == SubSeq(file, 1, Min2(size, Len(file)))
    IN  IF cfg.fanout
        THEN IF cfg.varint
             \* "fanout.append(fv)" and "fanout[-1]" on a name never bound
             THEN [err |-> "UnboundLocalError", data |-> <<>>]
             ELSE IF Len(data) < FanoutStructSize
             THEN [err |-> "struct.error", data |-> <<>>]
             ELSE IF count # 0 /\
                     count # UnpackU32LE(SubSeq(data, FanoutStructSize - 3,
                                                FanoutStructSize))
             THEN [err |-> "AssertionError", data |-> <<>>]
             ELSE IndexReadBody(cfg, data, count, FanoutStructSize)
        ELSE IndexReadBody(cfg, data, count, 0)

\* The keys handed to add: of the index's width, two sharing a first byte.
KeyPad == [i \in 1..(KeySize - 2) |-> 7]

KeySamples ==
    {<<0, 200>> \o KeyPad, <<1, 0>> \o KeyPad, <<1, 200>> \o KeyPad,
     <<255, 0>> \o KeyPad}

\* A key of the index's width that is never added.
KeyNeverAdded == <<1, 100>> \o KeyPad

\* The (offset, size, uncompressed size) triples handed to add.
ValSamples == {<<0, 5, 9>>, <<5, 300, 70000>>}

IndexConfigs ==
    [keysize : {KeySize}, fanout : BOOLEAN, varint : BOOLEAN, unc_size : BOOLEAN]

NoRead == [err |-> "none", data |-> <<>>]

NoAdd == [key |-> <<>>, before |-> <<>>, err |-> "none"]

\* Keys that are shorter and longer than the index's width.
OddKeySamples == {<<7>>, <<1, 0>> \o KeyPad \o <<9>>}

IndexStart ==
    /\ ix_pc = "build"
    /\ ix_cfg \in IndexConfigs
    /\ ix_data = <<>>
    /\ ix_n = 0
    /\ ix_out = <<>>
    /\ ix_keys = <<>>
    /\ ix_vals = <<>>
    /\ ix_wrote = 0
    /\ ix_read = NoRead
    /\ ix_last = NoAdd

IndexIdle ==
    /\ ix_pc = "idle"
    /\ ix_cfg = [keysize |-> KeySize, fanout |-> TRUE, varint |-> FALSE,
                 unc_size |-> TRUE]
    /\ ix_data = <<>>
    /\ ix_n = 0
    /\ ix_out = <<>>
    /\ ix_keys = <<>>
    /\ ix_vals = <<>>
    /\ ix_wrote = 0
    /\ ix_read = NoRead
    /\ ix_last = NoAdd

\* add(key, offset, size[, uncompressed_size])
IndexAddStep ==
    /\ ix_pc = "build"
    /\ ix_n < MaxEntries
    /\ \E k \in KeySamples, v \in ValSamples :
          ix_data' = IndexAdd(ix_cfg, ix_data, k, v[1], v[2], v[3])
    /\ ix_n' = ix_n + 1
    /\ UNCHANGED <<ix_pc, ix_cfg, ix_out, ix_keys, ix_vals, ix_wrote, ix_read,
                   ix_last>>

\* add(key, offset, size[, uncompressed_size]) with a key that is not of
\* the index's width: Struct.pack raises nothing and the entry is set.
IndexAddOddKey ==
    /\ ix_pc = "build"
    /\ ix_n < MaxEntries
    /\ \E k \in OddKeySamples, v \in ValSamples :
          /\ ix_data' = IndexAdd(ix_cfg, ix_data, k, v[1], v[2], v[3])
          /\ ix_last' = [key |-> k, before |-> ix_data, err |-> "none"]
    /\ ix_n' = ix_n + 1
    /\ ix_pc' = "oddkey"
    /\ UNCHANGED <<ix_cfg, ix_out, ix_keys, ix_vals, ix_wrote, ix_read>>

\* write_to(fobj) on an empty file
IndexWriteStep ==
    /\ ix_pc = "build"
    /\ LET w == IndexWriteTo(ix_cfg, ix_data)
       IN  /\ ix_out' = w.out
           /\ ix_keys' = w.keys
           /\ ix_vals' = w.vals
           /\ ix_wrote' = w.wrote
    /\ ix_pc' = "written"
    /\ UNCHANGED <<ix_cfg, ix_data, ix_n, ix_read, ix_last>>

\* from_file(fobj, size, count) of a new section with the same settings, on
\* the bytes written, with the size written and the count of entries
IndexReadStep ==
    /\ ix_pc = "written"
    /\ ix_read' = IndexFromFile(ix_cfg, ix_out, ix_wrote, IndexCount(ix_data))
    /\ ix_pc' = "read"
    /\ UNCHANGED <<ix_cfg, ix_data, ix_n, ix_out, ix_keys, ix_vals, ix_wrote,
                   ix_last>>

\* C2 (index correctness): after write_to and from_file on the written
\* bytes, get(key) gives the value added for every added key, and the
\* not-found default for a key never added.
C2_IndexRoundTrip ==
    ix_pc = "read" =>
        /\ ix_read.err = "none"
        /\ \A i \in 1..Len(ix_data) :
               IndexGet(ix_read.data, ix_data[i][1]) = ix_data[i][2]
        /\ \A k \in KeySamples \cup {KeyNeverAdded} :
               ~IndexContains(ix_data, k) => IndexGet(ix_read.data, k) = "None"

\* C3 (fanout law): for a fixed-width index, make_fanout gives 256 entries,
\* entry b being the number of stored keys whose first byte is <= b, and
\* the last entry the key count.
C3_FanoutLaw ==
    ~ix_cfg.varint /\ ix_pc # "idle" =>
        LET packed == make_fanout(ix_cfg, ix_data)
            entry(b) == UnpackU32LE(SubSeq(packed, 4*b + 1, 4*b + 4))
        IN  /\ Len(packed) = 4 * 256
            /\ \A b \in 0..255 :
                   entry(b) = Cardinality({i \in 1..Len(ix_data) :
                                              ix_data[i][1][1] <= b})
            /\ entry(255) = IndexCount(ix_data)

\* A fixed-width index with a fanout table and two keys sharing a first
\* byte was written.
C3_Witness ==
    /\ ~ix_cfg.varint
    /\ ix_pc = "written"
    /\ ix_cfg.fanout
    /\ \E i, j \in 1..Len(ix_data) :
          i # j /\ ix_data[i][1][1] = ix_data[j][1][1]

\* C4 (sortedness): the keys write_to emits are strictly ascending by
\* unsigned byte value whatever the order they were added in, and the i-th
\* value emitted is the value of the i-th key emitted.
C4_Sortedness ==
    ix_pc \in {"written", "read"} =>
        /\ Len(ix_keys) = Len(ix_data)
        /\ Len(ix_vals) = Len(ix_data)
        /\ \A i \in 1..(Len(ix_keys) - 1) : BytesLess(ix_keys[i], ix_keys[i+1])
        /\ \A i \in 1..Len(ix_keys) : IndexGet(ix_data, ix_keys[i]) = ix_vals[i]

\* Keys added in descending order were written.
C4_Witness ==
    /\ ix_pc = "written"
    /\ Len(ix_data) >= 2
    /\ BytesLess(ix_data[2][1], ix_data[1][1])
    /\ ix_keys[1] = ix_data[2][1]

\* C13 (key width): add with a key whose length is not the index's key
\* size raises an error and leaves the entries as they were, so that every
\* key the index holds is a key that was handed to add.
C13_KeyWidth ==
    ix_pc = "oddkey" =>
        /\ ix_last.err # "none"
        /\ ix_data = ix_last.before
        /\ \A i \in 1..Len(ix_data) : ix_data[i][1] # ix_last.key =>
              ix_data[i][1] \in KeySamples

---------------------------------------------------------------------------
(* dino/const.py, dino/util.py, struct.Struct                              *)

\* MAGIC_V0 = 0xedabeef0: a Python int, held as its four bytes, high first.
MAGIC_V0 == [pytype |-> "int", val |-> <<237, 171, 238, 240>>]

\* The name_idx of a section without a name.
NAME_IDX_NONE == 65535

\* The members of Arch, ObjectType, CompressionID and SectionType.
ArchValues ==
    {0, 2, 3, 8, 20, 21, 22, 40, 41, 42, 43, 50, 51, 62, 167, 183, 243}

ObjectTypeValues == 0..5

CompressionIDValues == 0..6

SectionTypeValues == (0..9) \cup {96, 111, 112, 127, 128, 255}

\* HeaderEncoding.BE: const.py defines DEFAULT, LE and OFF64 only; the
\* flag the container tests is taken as the next free bit.
HeaderEncodingBE == 4

\* SectionFlags.VARINT: const.py defines NONE and COMPRESSED only; the flag
\* IndexSection.from_hdr tests is taken as the next free bit.
SectionFlagsVARINT == 2

\* v & flag, for a one-bit flag.
HasFlag(v, flag) == (v \div flag) % 2 = 1

\* a == b for Python values: an int and a bytes object are never equal.
PyEq(a, b) == a.pytype = b.pytype /\ a.val = b.val

Reverse(s) == [i \in 1..Len(s) |-> s[Len(s) + 1 - i]]

\* int.from_bytes(b, 'little')
RECURSIVE UIntLE(_)
UIntLE(b) == IF b = <<>> THEN 0 ELSE Head(b) + 256 * UIntLE(Tail(b))

\* Struct unpack of one unsigned field in the parser's byte order.
UnpackUInt(b, be) == IF be THEN UIntLE(Reverse(b)) ELSE UIntLE(b)

\* copy_stream(inf, outf, size, blocksize): the bytes written to outf, inf
\* being read from position pos; left is decreased by the running total.
RECURSIVE CopyLoop(_, _, _, _, _)
CopyLoop(inf, pos, left, out, blocksize) ==
    IF left = 0 THEN out
    ELSE LET n   == IF left < 0 THEN blocksize ELSE Min2(blocksize, left)
             buf == SubSeq(inf, pos + 1, Min2(pos + n, Len(inf)))
         IN  IF buf = <<>> THEN out
             ELSE CopyLoop(inf, pos + Len(buf), left - Len(out \o buf),
                           out \o buf, blocksize)

copy_stream(inf, pos, size, blocksize) == CopyLoop(inf, pos, size, <<>>, blocksize)

\* The default blocksize of copy_stream.
CopyBlockSize == 16 * 1024

---------------------------------------------------------------------------
(* dino/section.py: the section classes as DINO holds them                 *)

\* typeid of each section class.
SectionTypeId(cls) ==
    CASE cls = "NullSection"      -> 0
      [] cls = "BlobSection"      -> 1
      [] cls = "BlobSectionBytes" -> 1
      [] cls = "IndexSection"     -> 2
      [] cls = "FilesysSection"   -> 8
      [] cls = "FileDataSection"  -> 9
      [] cls = "RPMSection"       -> 127

\* sectionclass(typeid): the classes the loop over the set of subclasses
\* can return; none for a type no class carries.
sectionclass(typeid) ==
    {cls \in {"NullSection", "BlobSection", "BlobSectionBytes", "IndexSection",
              "FilesysSection", "FileDataSection", "RPMSection"} :
        SectionTypeId(cls) = typeid}

NoCfg == [keysize |-> 0, fanout |-> TRUE, varint |-> FALSE, unc_size |-> TRUE]

\* A section object: its class, header fields and data bytes; for an index
\* its entries, its settings and the index of the section it is an index of.
Section(cls, flags, data, items, cfg, othersec_idx) ==
    [cls |-> cls, name_idx |-> NAME_IDX_NONE, flags |-> flags, info |-> 0,
     data |-> data, items |-> items, cfg |-> cfg,
     othersec_idx |-> othersec_idx]

\* IndexInfo.flags
IndexInfoFlags(cfg) ==
    (IF cfg.fanout THEN 0 ELSE 1) + (IF cfg.unc_size THEN 4 ELSE 0)

\* IndexSection.info: othersec is sectab[othersec_idx], its idx the place
\* of that section in the table.
IndexSectionInfo(sec, sectab) ==
    IF sec.othersec_idx >= Len(sectab)
    THEN [err |-> "IndexError", val |-> 0]
    ELSE [err |-> "none",
          val |-> sec.cfg.keysize + 256 * sec.othersec_idx
                  + 65536 * IndexInfoFlags(sec.cfg)]

\* section.info
SectionInfo(sec, sectab) ==
    IF sec.cls = "IndexSection" THEN IndexSectionInfo(sec, sectab)
    ELSE [err |-> "none", val |-> sec.info]

\* sum(len(varint_encode(i)) for v in self.values() for i in v)
RECURSIVE VarintValuesLen(_)
VarintValuesLen(data) ==
    IF data = <<>> THEN 0
    ELSE Len(VarintPack(Head(data)[2])) + VarintValuesLen(Tail(data))

\* IndexSection.size
IndexSectionSize(cfg, data) ==
    IF cfg.varint
    THEN Len(make_fanout(cfg, data)) + IndexCount(data) * cfg.keysize
         + VarintValuesLen(data)
    ELSE FanoutStructSize + IndexCount(data) * (cfg.keysize + ValStructSize(cfg))

\* section.size: len() of a BytesIO raises TypeError.
SectionSize(sec) ==
    CASE sec.cls = "NullSection"      -> [err |-> "none", val |-> 0]
      [] sec.cls = "BlobSectionBytes" -> [err |-> "TypeError", val |-> 0]
      [] sec.cls = "IndexSection"     ->
            [err |-> "none", val |-> IndexSectionSize(sec.cfg, sec.items)]
      [] OTHER                        -> [err |-> "none", val |-> Len(sec.data)]

\* section.count
SectionCount(sec) ==
    IF sec.cls = "IndexSection" THEN IndexCount(sec.items) ELSE 0

\* BaseSection.pack_hdr: Shdrp._struct is the little-endian '<HBBIII'.
pack_hdr(sec, sectab) ==
    LET info == SectionInfo(sec, sectab)
        size == SectionSize(sec)
    IN  IF info.err # "none" THEN [err |-> info.err, out |-> <<>>]
        ELSE IF size.err # "none" THEN [err |-> size.err, out |-> <<>>]
        ELSE ShdrPack(sec.name_idx, SectionTypeId(sec.cls), sec.flags,
                      WideOf(info.val), WideOf(size.val),
                      WideOf(SectionCount(sec)))

\* section.write_to(fobj): the bytes it writes, or the error it raises.
SectionWriteTo(sec) ==
    CASE sec.cls = "NullSection"      -> [err |-> "none", out |-> <<>>]
      [] sec.cls = "BlobSectionBytes" -> [err |-> "TypeError", out |-> <<>>]
      [] sec.cls = "IndexSection"     ->
            [err |-> "none", out |-> IndexWriteTo(sec.cfg, sec.items).out]
      [] OTHER                        ->
            [err |-> "none",
             out |-> copy_stream(sec.data, 0, Len(sec.data), CopyBlockSize)]

\* C19 (declared size equals written size): after write_to on an index in
\* any state (no entries, fanout on or off, fixed-width or varint), the
\* count of bytes written is the size the section declares for its header.
C19_DeclaredSize ==
    ix_pc = "written" =>
        /\ ix_wrote = Len(ix_out)
        /\ ix_wrote = IndexSectionSize(ix_cfg, ix_data)

---------------------------------------------------------------------------
(* dino/__init__.py: DINO                                                  *)

\* DINO.VERSION
DINO_VERSION == 0

\* Dhdrp.structsize and Shdrp.structsize
DhdrStructSize == 16

ShdrStructSize == 16

\* The 's' format of Struct.pack takes a bytes object only.
Pack4s(v) ==
    IF v.pytype = "bytes"
    THEN [err |-> "none", out |-> PackKey(v.val, 4)]
    ELSE [err |-> "struct.error", out |-> <<>>]

\* DINO.add_section(section, name): name_section adds the name twice and
\* keeps the second offset.
add_section(sectab, namtab, section, name) ==
    IF name = <<>>
    THEN [sectab |-> Append(sectab, section), namtab |-> namtab]
    ELSE LET first  == StringTableAdd(namtab, name)
             second == StringTableAdd([data |-> first.data, ends |-> first.ends],
                                      name)
         IN  [sectab |-> Append(sectab, [section EXCEPT !.name_idx = second.ret]),
              namtab |-> [data |-> second.data, ends |-> second.ends]]

\* DINO.pack_dhdr: Dhdrp._struct is the little-endian '<4sBBBBBBBHH'.
pack_dhdr(enc, sectab, namtab) ==
    LET magic == Pack4s(MAGIC_V0)
    IN  IF magic.err # "none" THEN [err |-> magic.err, out |-> <<>>]
        ELSE IF \/ Len(sectab) > 255
                \/ Len(sectab) * ShdrStructSize > 65535
                \/ StringTableSize(namtab) > 65535
        THEN [err |-> "struct.error", out |-> <<>>]
        ELSE [err |-> "none",
              out |-> magic.out
                      \o <<DINO_VERSION, 0, enc, 0, 0, 0, 0, Len(sectab)>>
                      \o PackU16LE(Len(sectab) * ShdrStructSize)
                      \o PackU16LE(StringTableSize(namtab))]

\* b''.join(sec.pack_hdr() for sec in self.sectab): the first error wins.
RECURSIVE PackSectab(_, _)
PackSectab(secs, sectab) ==
    IF secs = <<>> THEN [err |-> "none", out |-> <<>>]
    ELSE LET h == pack_hdr(Head(secs), sectab)
         IN  IF h.err # "none" THEN h
             ELSE LET rest == PackSectab(Tail(secs), sectab)
                  IN  IF rest.err # "none" THEN rest
                      ELSE [err |-> "none", out |-> h.out \o rest.out]

\* DINO.pack_hdrs
pack_hdrs(enc, sectab, namtab) ==
    LET dhdr == pack_dhdr(enc, sectab, namtab)
    IN  IF dhdr.err # "none" THEN dhdr
        ELSE LET shdrs == PackSectab(sectab, sectab)
             IN  IF shdrs.err # "none" THEN shdrs
                 ELSE [err |-> "none",
                       out |-> dhdr.out \o shdrs.out \o StringTablePack(namtab)]

\* The loop of DINO.write_to over the sections: what reaches the file
\* before the first error.
RECURSIVE WriteSections(_, _)
WriteSections(secs, file) ==
    IF secs = <<>> THEN [err |-> "none", file |-> file]
    ELSE LET w == SectionWriteTo(Head(secs))
         IN  IF w.err # "none" THEN [err |-> w.err, file |-> file]
             ELSE WriteSections(Tail(secs), file \o w.out)

\* DINO.write_to(fobj) on an empty file: the error raised and the file.
DinoWriteTo(enc, sectab, namtab) ==
    LET hdrs == pack_hdrs(enc, sectab, namtab)
    IN  IF hdrs.err # "none" THEN [err |-> hdrs.err, file |-> <<>>]
        ELSE WriteSections(sectab, hdrs.out)

\* StructField.parse_val: the enum conversion, then the choices test.
parse_val(raw, members, choices) ==
    IF members # {} /\ raw.val \notin members THEN "ValueError"
    ELSE IF choices # {} /\ ~\E c \in choices : PyEq(raw, c) THEN "ValueError"
    ELSE "none"

PyInt(n) == [pytype |-> "int", val |-> n]

PyBytes(b) == [pytype |-> "bytes", val |-> b]

\* Dhdrp.LE.parse_bytes / Dhdrp.BE.parse_bytes: the fields are parsed in
\* order, the first value not valid raising ValueError.
DhdrParse(buf, be) ==
    IF Len(buf) < DhdrStructSize THEN [err |-> "struct.error"]
    ELSE
    LET magic   == PyBytes(SubSeq(buf, 1, 4))
        version == buf[5]
        errs == << parse_val(magic, {}, {MAGIC_V0}),
                   parse_val(PyInt(version), {}, {PyInt(0)}),
                   parse_val(PyInt(buf[6]), ArchValues, {}),
                   parse_val(PyInt(buf[8]), ObjectTypeValues, {}),
                   parse_val(PyInt(buf[9]), CompressionIDValues, {}) >>
    IN  IF \E i \in 1..Len(errs) : errs[i] # "none"
        THEN [err |-> "ValueError"]
        ELSE [err |-> "none", magic |-> magic, version |-> version,
              arch |-> buf[6], encoding |-> buf[7], objtype |-> buf[8],
              compression_id |-> buf[9], section_count |-> buf[12],
              sectab_size |-> UnpackUInt(SubSeq(buf, 13, 14), be),
              namtab_size |-> UnpackUInt(SubSeq(buf, 15, 16), be)]

\* The magic test of read_dhdr with the bytes of the constant compared.
MagicDiffersByBytes(magic) ==
    magic.val \notin {MAGIC_V0.val, Reverse(MAGIC_V0.val)}

\* dhdr.magic != cls.MAGIC
MagicDiffers(magic) == ~PyEq(magic, MAGIC_V0)

\* DINO.read_dhdr(fobj) on a file holding buf: the error raised, or the
\* header and the byte order of the new object's parsers.
read_dhdr(buf) ==
    LET le == DhdrParse(buf, FALSE)
    IN  IF le.err # "none" THEN le
        ELSE LET be   == HasFlag(le.encoding, HeaderEncodingBE)
                 dhdr == IF be THEN DhdrParse(buf, TRUE) ELSE le
             IN  IF dhdr.err # "none" THEN dhdr
                 ELSE IF MagicDiffers(dhdr.magic) THEN [err |-> "DINOError"]
                 ELSE IF dhdr.version > DINO_VERSION THEN [err |-> "DINOError"]
                 ELSE [err |-> "none", dhdr |-> dhdr, be |-> be]

\* Shdrp.iter_parse: one section header at offset off of buf.
ShdrParse(buf, off, be) ==
    LET stype == buf[off + 3]
    IN  IF stype \notin SectionTypeValues THEN [err |-> "ValueError"]
        ELSE [err |-> "none",
              name  |-> UnpackUInt(SubSeq(buf, off + 1, off + 2), be),
              stype |-> stype,
              flags |-> buf[off + 4],
              info  |-> UnpackUInt(SubSeq(buf, off + 5, off + 8), be),
              size  |-> UnpackUInt(SubSeq(buf, off + 9, off + 12), be),
              count |-> UnpackUInt(SubSeq(buf, off + 13, off + 16), be)]

\* DINO.read_hdrs: the header, the section headers and the name table.
read_hdrs(buf) ==
    LET h == read_dhdr(buf)
    IN  IF h.err # "none" THEN h
        ELSE
        LET tabend == Min2(DhdrStructSize + h.dhdr.sectab_size, Len(buf))
            n      == (tabend - DhdrStructSize) \div ShdrStructSize
            shdrs  == [i \in 1..n |->
                         ShdrParse(buf, DhdrStructSize + ShdrStructSize * (i - 1),
                                   h.be)]
            namend == Min2(tabend + h.dhdr.namtab_size, Len(buf))
        IN  IF (tabend - DhdrStructSize) % ShdrStructSize # 0
            THEN [err |-> "struct.error"]
            ELSE IF \E i \in 1..n : shdrs[i].err # "none"
            THEN [err |-> "ValueError"]
            ELSE [err |-> "none", dhdr |-> h.dhdr, sectab |-> shdrs,
                  namtab |-> StringTableNew(SubSeq(buf, tabend + 1, namend)),
                  pos |-> namend]

\* ThisSection.from_hdr(shdr) for the class chosen: the error it raises.
SectionFromHdr(shdr, cls) ==
    IF cls = "None" THEN "AttributeError"
    ELSE IF cls = "IndexSection" /\ (shdr.info \div 256) % 256 = 0
    THEN "ValueError"
    ELSE "none"

\* IndexSection.from_hdr: the settings read from info and flags.
IndexCfgFromHdr(shdr) ==
    LET flags == (shdr.info \div 65536) % 256
    IN  [keysize  |-> shdr.info % 256,
         fanout   |-> ~HasFlag(flags, 1),
         varint   |-> HasFlag(shdr.flags, SectionFlagsVARINT),
         unc_size |-> HasFlag(flags, 4)]

\* sec.from_file(fobj, size=shdr.size, count=shdr.count) at position pos.
SectionFromFile(shdr, cls, buf, pos) ==
    LET raw == SubSeq(buf, pos + 1, Min2(pos + shdr.size, Len(buf)))
    IN  IF cls = "NullSection" THEN [err |-> "NotImplementedError", raw |-> <<>>]
        ELSE IF cls = "IndexSection"
        THEN [err |-> IndexFromFile(IndexCfgFromHdr(shdr),
                                    SubSeq(buf, pos + 1, Len(buf)),
                                    shdr.size, shdr.count).err,
              raw |-> raw]
        ELSE [err |-> "none", raw |-> raw]

\* The second loop of DINO.from_file: each section reads its bytes, and
\* the file is moved on by the size its header declares.
RECURSIVE ReadSections(_, _, _, _, _)
ReadSections(shdrs, classes, i, buf, pos) ==
    IF i > Len(shdrs) THEN [err |-> "none", sectab |-> <<>>]
    ELSE LET r == SectionFromFile(shdrs[i], classes[i], buf, pos)
         IN  IF r.err # "none" THEN [err |-> r.err, sectab |-> <<>>]
             ELSE LET rest == ReadSections(shdrs, classes, i + 1, buf,
                                           pos + shdrs[i].size)
                  IN  IF rest.err # "none" THEN rest
                      ELSE [err |-> "none",
                            sectab |-> <<[stype |-> shdrs[i].stype,
                                          flags |-> shdrs[i].flags,
                                          info  |-> shdrs[i].info,
                                          size  |-> shdrs[i].size,
                                          count |-> shdrs[i].count,
                                          raw   |-> r.raw]>> \o rest.sectab]

\* The class DINO.from_file makes of a section header; bytesfirst says
\* which of the two classes of type Blob the set of subclasses yields first.
ThisSection(shdr, bytesfirst) ==
    LET cs == sectionclass(shdr.stype)
    IN  IF cs = {} THEN "None"
        ELSE IF "BlobSectionBytes" \in cs /\ bytesfirst THEN "BlobSectionBytes"
        ELSE CHOOSE c \in cs : c # "BlobSectionBytes"

\* The first loop of DINO.from_file: the error of the first from_hdr that
\* raises one.
RECURSIVE MakeSections(_, _)
MakeSections(shdrs, bytesfirst) ==
    IF shdrs = <<>> THEN "none"
    ELSE LET e == SectionFromHdr(Head(shdrs), ThisSection(Head(shdrs), bytesfirst))
         IN  IF e # "none" THEN e ELSE MakeSections(Tail(shdrs), bytesfirst)

\* DINO.from_file after read_hdrs.
LoadSections(h, buf, bytesfirst) ==
    IF MakeSections(h.sectab, bytesfirst) # "none"
    THEN [err |-> MakeSections(h.sectab, bytesfirst), sectab |-> <<>>]
    ELSE ReadSections(h.sectab,
                      [i \in 1..Len(h.sectab) |->
                          ThisSection(h.sectab[i], bytesfirst)],
                      1, buf, h.pos)

\* DINO.from_file(fobj) on a file holding buf: the error raised and the
\* sections read.
from_file(buf, bytesfirst) ==
    IF read_hdrs(buf).err # "none"
    THEN [err |-> read_hdrs(buf).err, sectab |-> <<>>]
    ELSE LoadSections(read_hdrs(buf), buf, bytesfirst)

\* The sections handed to add_section.
BlobSamples == {<<>>, <<1, 2, 3>>}

SectionSamples ==
    {Section("NullSection", 0, <<>>, <<>>, NoCfg, 0)}
    \cup {Section("BlobSection", 0, b, <<>>, NoCfg, 0) : b \in BlobSamples}
    \cup {Section("RPMSection", 1, b, <<>>, NoCfg, 0) : b \in BlobSamples}
    \cup {Section("BlobSectionBytes", 0, <<7>>, <<>>, NoCfg, 0)}
    \cup {Section("IndexSection", 0, <<>>,
                  <<<<PackKey(<<1, 0>>, KeySize), <<0, 3>>>>>>,
                  [keysize |-> KeySize, fanout |-> FALSE, varint |-> FALSE,
                   unc_size |-> FALSE], 1)}

\* The names handed to add_section; the empty one stands for no name.
NameSamples == {<<>>, <<97>>, <<97, 98>>}

\* The number of add_section calls.
MaxSections == 2

\* A 16-byte container header with no sections and no names.
HeaderBytes(magic, version, encoding) ==
    magic \o <<version, 0, encoding, 0, 0, 0, 0, 0, 0, 0, 0, 0>>

\* The headers handed to read_dhdr: the magic constant in either byte
\* order or another magic, version 0 or 1, and a file that is too short.
HeaderSamples ==
    {HeaderBytes(m, v, e) :
        m \in {Reverse(MAGIC_V0.val), MAGIC_V0.val, <<0, 0, 0, 0>>},
        v \in {0, 1}, e \in {0, 1}}
    \cup {<<1, 2, 3>>}

NoContainer == [err |-> "none", sectab |-> <<>>]

DinoStart ==
    /\ dn_pc = "build"
    /\ dn_enc \in {0, 1, HeaderEncodingBE}
    /\ dn_sectab = <<>>
    /\ dn_namtab = StringTableNew(<<>>)
    /\ dn_file = <<>>
    /\ dn_err = "none"
    /\ dn_in = <<>>
    /\ dn_read = NoContainer

DinoIdle ==
    /\ dn_pc = "idle"
    /\ dn_enc = 0
    /\ dn_sectab = <<>>
    /\ dn_namtab = StringTableNew(<<>>)
    /\ dn_file = <<>>
    /\ dn_err = "none"
    /\ dn_in = <<>>
    /\ dn_read = NoContainer

\* d.add_section(section, name)
DinoAddSection ==
    /\ dn_pc = "build"
    /\ Len(dn_sectab) < MaxSections
    /\ \E s \in SectionSamples, name \in NameSamples :
          LET r == add_section(dn_sectab, dn_namtab, s, name)
          IN  /\ dn_sectab' = r.sectab
              /\ dn_namtab' = r.namtab
    /\ UNCHANGED <<dn_pc, dn_enc, dn_file, dn_err, dn_in, dn_read>>

\* d.write_to(fobj) on an empty file
DinoWrite ==
    /\ dn_pc = "build"
    /\ LET w == DinoWriteTo(dn_enc, dn_sectab, dn_namtab)
       IN  /\ dn_err' = w.err
           /\ dn_file' = w.file
    /\ dn_pc' = "written"
    /\ UNCHANGED <<dn_enc, dn_sectab, dn_namtab, dn_in, dn_read>>

\* DINO.from_file(fobj) on the file write_to left
DinoFromFile ==
    /\ dn_pc = "written"
    /\ dn_in' = dn_file
    /\ \E bytesfirst \in BOOLEAN : dn_read' = from_file(dn_file, bytesfirst)
    /\ dn_pc' = "read"
    /\ UNCHANGED <<dn_enc, dn_sectab, dn_namtab, dn_file, dn_err>>

\* d.pack_dhdr()
DinoPackDhdr ==
    /\ dn_pc = "build"
    /\ LET h == pack_dhdr(dn_enc, dn_sectab, dn_namtab)
       IN  /\ dn_err' = h.err
           /\ dn_file' = h.out
    /\ dn_pc' = "packed"
    /\ UNCHANGED <<dn_enc, dn_sectab, dn_namtab, dn_in, dn_read>>

\* DINO.read_dhdr(fobj) on the header pack_dhdr gave, if it gave one, or
\* on a header made by hand
DinoReadDhdr ==
    /\ dn_pc = "packed"
    /\ \E h \in HeaderSamples \cup (IF dn_err = "none" THEN {dn_file} ELSE {}) :
          /\ dn_in' = h
          /\ dn_read' = [err |-> read_dhdr(h).err, sectab |-> <<>>]
    /\ dn_pc' = "dhdr"
    /\ UNCHANGED <<dn_enc, dn_sectab, dn_namtab, dn_file, dn_err>>

\* A container file made by hand: a well-formed header, a section table
\* of one entry of the type id stype with no name and no data.
ForeignFile(stype) ==
    Reverse(MAGIC_V0.val) \o <<DINO_VERSION, 0, 0, 0, 0, 0, 0, 1>>
        \o PackU16LE(ShdrStructSize) \o PackU16LE(0)
        \o PackU16LE(NAME_IDX_NONE) \o <<stype, 0>>
        \o PackU32LE(0) \o PackU32LE(0) \o PackU32LE(0)

\* Type ids: Blob; StringTable, a SectionType no section class carries;
\* 10, not a SectionType.
ForeignTypes == {1, 3, 10}

\* DINO.from_file(fobj) on a container file made by hand
DinoFromFileForeign ==
    /\ dn_pc = "build"
    /\ dn_sectab = <<>>
    /\ \E stype \in ForeignTypes, bytesfirst \in BOOLEAN :
          /\ dn_in' = ForeignFile(stype)
          /\ dn_read' = from_file(ForeignFile(stype), bytesfirst)
    /\ dn_pc' = "foreign"
    /\ UNCHANGED <<dn_enc, dn_sectab, dn_namtab, dn_file, dn_err>>

\* The header of the section added last, packed by sec.pack_hdr() as
\* write_to packs it, and parsed by d.Shdrp, the layout the encoding byte
\* of the container selects, as read_hdrs parses it.
DinoPackShdr ==
    /\ dn_pc = "build"
    /\ dn_sectab # <<>>
    /\ LET h == pack_hdr(dn_sectab[Len(dn_sectab)], dn_sectab)
           r == ShdrParse(h.out, 0, HasFlag(dn_enc, HeaderEncodingBE))
       IN  /\ dn_err' = h.err
           /\ dn_file' = h.out
           /\ dn_in' = h.out
           /\ dn_read' = IF h.err # "none" THEN NoContainer
                         ELSE [err |-> r.err, sectab |-> <<r>>]
    /\ dn_pc' = "shdr"
    /\ UNCHANGED <<dn_enc, dn_sectab, dn_namtab>>

\* C1 (round trip): after write_to and from_file on the written bytes, the
\* section table read has the length of the one written, and every section
\* the type, flags, info, size, count and raw bytes that were written.
C1_RoundTrip ==
    dn_pc = "read" =>
        /\ dn_err = "none"
        /\ dn_read.err = "none"
        /\ Len(dn_read.sectab) = Len(dn_sectab)
        /\ \A i \in 1..Len(dn_sectab) :
              LET w == dn_sectab[i]
                  r == dn_read.sectab[i]
              IN  /\ r.stype = SectionTypeId(w.cls)
                  /\ r.flags = w.flags
                  /\ r.info = SectionInfo(w, dn_sectab).val
                  /\ r.size = SectionSize(w).val
                  /\ r.count = SectionCount(w)
                  /\ r.raw = SectionWriteTo(w).out

\* C10 (header validation): read_dhdr fails whenever the magic field is
\* not the magic constant or the version is above the reader's; pack_dhdr
\* gives a header, and read_dhdr succeeds on a header that holds the magic
\* constant and version 0.
C10_HeaderValidation ==
    /\ dn_pc = "packed" => dn_err = "none"
    /\ dn_pc = "dhdr" /\ Len(dn_in) = DhdrStructSize =>
          /\ (MagicDiffersByBytes(PyBytes(SubSeq(dn_in, 1, 4)))
              \/ dn_in[5] > DINO_VERSION) => dn_read.err # "none"
          /\ (SubSeq(dn_in, 1, 4) = Reverse(MAGIC_V0.val) /\ dn_in[5] = 0)
                => dn_read.err = "none"

\* C28 (endianness is consistent between writer and reader): for either
\* value of the byte-order flag of the encoding, a section-table entry as
\* the writer packs it, parsed with the layout the reader picks from the
\* encoding byte, gives the field values that were packed.
C28_ByteOrder ==
    (dn_pc = "shdr" /\ dn_err = "none") =>
        /\ dn_read.err = "none"
        /\ LET w == dn_sectab[Len(dn_sectab)]
               r == dn_read.sectab[1]
           IN  /\ r.name = w.name_idx
               /\ r.stype = SectionTypeId(w.cls)
               /\ r.flags = w.flags
               /\ r.info = SectionInfo(w, dn_sectab).val
               /\ r.size = SectionSize(w).val
               /\ r.count = SectionCount(w)

\* C11 (forward compatibility): from_file on a container whose section
\* table has an entry of a type id that is not one of the known section
\* kinds does not fail, and gives a section for the entry.
C11_UnknownType ==
    (dn_pc = "foreign" /\ sectionclass(dn_in[DhdrStructSize + 3]) = {}) =>
        /\ dn_read.err = "none"
        /\ Len(dn_read.sectab) = 1

---------------------------------------------------------------------------
(* struct.Struct: the range of the integer fields                          *)

\* Values around 2^16 and 2^32, and 2^40.
WideSamples ==
    {WideInt(0, 0), WideInt(1, 4464), WideInt(65535, 65535),
     WideInt(65536, 0), WideInt(65537, 4464), WideInt(16777216, 0)}

\* Counts of sections around the width of section_count.
SectionCountSamples == {2, 255, 256, 300}

NoWide == [kind |-> "none", n |-> 0, v |-> <<>>]

NoPacked == [err |-> "none", out |-> <<>>]

WideStart ==
    /\ wd_pc = "new"
    /\ wd_args = NoWide
    /\ wd_out = NoPacked

WideIdle ==
    /\ wd_pc = "idle"
    /\ wd_args = NoWide
    /\ wd_out = NoPacked

\* pack_hdr() of a blob section of the given size and count
WidePackHdr ==
    /\ wd_pc = "new"
    /\ \E size \in WideSamples, count \in WideSamples :
          /\ wd_args' = [kind |-> "shdr", n |-> 0, v |-> <<size, count>>]
          /\ wd_out' = ShdrPack(NAME_IDX_NONE, SectionTypeId("BlobSection"), 0,
                                WideOf(0), size, count)
    /\ wd_pc' = "packed"

\* The value of one index entry written by IndexSection.write_to
WideValPack ==
    /\ wd_pc = "new"
    /\ \E offset \in WideSamples, size \in WideSamples, unc_size \in BOOLEAN :
          LET v == IF unc_size THEN <<offset, size, size>> ELSE <<offset, size>>
          IN  /\ wd_args' = [kind |-> "val", n |-> 0, v |-> v]
              /\ wd_out' = ValStructPack(v)
    /\ wd_pc' = "packed"

\* pack_dhdr() of a container of n null sections
WidePackDhdr ==
    /\ wd_pc = "new"
    /\ \E n \in SectionCountSamples :
          /\ wd_args' = [kind |-> "dhdr", n |-> n, v |-> <<>>]
          /\ wd_out' = pack_dhdr(0,
                           [i \in 1..n |->
                               Section("NullSection", 0, <<>>, <<>>, NoCfg, 0)],
                           StringTableNew(<<>>))
    /\ wd_pc' = "packed"

---------------------------------------------------------------------------
(* rpmtoys/vercmp.py: rpmvercmp                                            *)

\* Strings are sequences of code points.
OrdDot == 46
OrdZero == 48
OrdCaret == 94
OrdTilde == 126

\* string.digits, string.ascii_letters and _verch.
digits == 48..57

ascii_letters == (65..90) \cup (97..122)

verch == ascii_letters \cup digits \cup {OrdTilde, OrdCaret}

risdigit(ch) == ch \in digits

risalpha(ch) == ch \in ascii_letters

risverch(ch) == ch \in verch

\* take_while(s, match) for a match that tests membership in `chars`: the
\* longest prefix whose characters all match, and the rest.
take_while(s, chars) ==
    LET i == Cardinality({k \in 1..Len(s) : \A j \in 1..k : s[j] \in chars})
    IN  <<SubSeq(s, 1, i), SubSeq(s, i + 1, Len(s))>>

\* take_until(s, match): take_while with the match negated.
take_until(s, chars) ==
    LET i == Cardinality({k \in 1..Len(s) : \A j \in 1..k : s[j] \notin chars})
    IN  <<SubSeq(s, 1, i), SubSeq(s, i + 1, Len(s))>>

\* s1.lstrip('0')
Lstrip0(s) == take_while(s, {OrdZero})[2]

\* s < t on Python strings: the first differing code point decides, and a
\* proper prefix is smaller.
StrLess(s, t) ==
    \E i \in 1..Len(t) :
        /\ i <= Len(s) + 1
        /\ SubSeq(s, 1, i - 1) = SubSeq(t, 1, i - 1)
        /\ (i = Len(s) + 1 \/ s[i] < t[i])

\* ch = s[0:1]: the first character, or the empty string.
First(s) == IF s = <<>> THEN <<>> ELSE <<s[1]>>

Rest(s) == SubSeq(s, 2, Len(s))

NoSegmentAlwaysOne(isnum) == 1

\* "return 1 if isnum else -1": the second string has no segment of the
\* first one's type.
NoSegment(isnum) == IF isnum THEN 1 ELSE -1

\* Not a result: the segments are equal and the loop goes round again.
VercmpContinue == 2

\* The comparison of one segment of each string (lines 90-118): the result,
\* or VercmpContinue when the segments are equal.
CompareSegment(s1, s2, isnum) ==
    IF s2 = <<>> THEN NoSegment(isnum)
    ELSE LET t1 == IF isnum THEN Lstrip0(s1) ELSE s1
             t2 == IF isnum THEN Lstrip0(s2) ELSE s2
         IN  IF isnum /\ Len(t1) > Len(t2) THEN 1
             ELSE IF isnum /\ Len(t1) < Len(t2) THEN -1
             ELSE IF StrLess(t1, t2) THEN -1
             ELSE IF StrLess(t2, t1) THEN 1
             ELSE VercmpContinue

RECURSIVE VercmpLoop(_, _)
\* The while loop of rpmvercmp and the two returns after it.
VercmpLoop(one0, two0) ==
    IF one0 = <<>> /\ two0 = <<>> THEN 0
    ELSE
    LET one == take_until(one0, verch)[2]
        two == take_until(two0, verch)[2]
        ch1 == First(one)
        ch2 == First(two)
        tilde == <<OrdTilde>>
        caret == <<OrdCaret>>
        after == IF one = <<>> /\ two = <<>> THEN 0
                 ELSE IF one # <<>> THEN 1 ELSE -1
    IN  IF ch1 = tilde \/ ch2 = tilde
        THEN IF ch1 # tilde THEN 1
             ELSE IF ch2 # tilde THEN -1
             ELSE VercmpLoop(Rest(one), Rest(two))
        ELSE IF ch1 = caret \/ ch2 = caret
        THEN IF one = <<>> THEN -1
             ELSE IF two = <<>> THEN 1
             ELSE IF ch1 # caret THEN 1
             ELSE IF ch2 # caret THEN -1
             ELSE VercmpLoop(Rest(one), Rest(two))
        ELSE IF one = <<>> \/ two = <<>> THEN after
        ELSE LET isnum == risdigit(one[1])
                 p1 == IF isnum THEN take_while(one, digits)
                                ELSE take_while(one, ascii_letters)
                 p2 == IF isnum THEN take_while(two, digits)
                                ELSE take_while(two, ascii_letters)
                 r  == CompareSegment(p1[1], p2[1], isnum)
             IN  IF r # VercmpContinue THEN r
                 ELSE VercmpLoop(p1[2], p2[2])

rpmvercmp(a, b) == IF a = b THEN 0 ELSE VercmpLoop(a, b)

\* Version strings: letters, digits, '.', '~' and '^'.
VerAlphabet == {97, 98, 48, 49, OrdDot, OrdTilde, OrdCaret}

MaxVerLen == 3

VerStrings == UNION {[1..n -> VerAlphabet] : n \in 0..MaxVerLen}

NoVersion == <<-1>>

NoCompare == [ab |-> 2, ba |-> 2, aa |-> 2]

VercmpStart ==
    /\ vc_pc = "new"
    /\ vc_a \in VerStrings
    /\ vc_b = NoVersion
    /\ vc_r = NoCompare

VercmpIdle ==
    /\ vc_pc = "idle"
    /\ vc_a = NoVersion
    /\ vc_b = NoVersion
    /\ vc_r = NoCompare

\* rpmvercmp(a, b), rpmvercmp(b, a) and rpmvercmp(a, a) for one more string.
VercmpCompare ==
    /\ vc_pc = "new"
    /\ \E b \in VerStrings :
          /\ vc_b' = b
          /\ vc_r' = [ab |-> rpmvercmp(vc_a, b),
                      ba |-> rpmvercmp(b, vc_a),
                      aa |-> rpmvercmp(vc_a, vc_a)]
    /\ vc_pc' = "compared"
    /\ UNCHANGED vc_a

\* vc_a goes on with '~' after a prefix it shares with vc_b, and vc_b ends
\* there or goes on with a character that is not in the set `same`.
TildeAgainst(same) ==
    \E k \in 0..(Len(vc_a) - 1) :
        /\ vc_a[k + 1] = OrdTilde
        /\ k <= Len(vc_b)
        /\ SubSeq(vc_a, 1, k) = SubSeq(vc_b, 1, k)
        /\ (Len(vc_b) = k \/ vc_b[k + 1] \notin same)

\* C18 as stated: rpmvercmp(a, b) is -1, 0 or 1, rpmvercmp(a, a) is 0,
\* rpmvercmp(a, b) = -rpmvercmp(b, a), and a string that goes on with '~'
\* where the other does not compares lower.  Violated: "1~" and "1.~" compare
\* equal and "1~" compares higher than "1.~~", the '.' being skipped before
\* the '~' is looked at; "0~" and "00~" compare equal.
C18_ThreeWayAsStated ==
    vc_pc = "compared" =>
        /\ vc_r.ab \in {-1, 0, 1}
        /\ vc_r.aa = 0
        /\ vc_r.ab = -vc_r.ba
        /\ TildeAgainst({OrdTilde}) => vc_r.ab = -1

\* C18, amended: rpmvercmp(a, b) is -1, 0 or 1, rpmvercmp(a, a) is 0,
\* rpmvercmp(a, b) = -rpmvercmp(b, a), and a string that goes on with '~'
\* where the other ends or goes on with a character other than '~', '.' and
\* '0' compares lower.
C18_ThreeWay ==
    vc_pc = "compared" =>
        /\ vc_r.ab \in {-1, 0, 1}
        /\ vc_r.aa = 0
        /\ vc_r.ab = -vc_r.ba
        /\ TildeAgainst({OrdTilde, OrdDot, OrdZero}) => vc_r.ab = -1

\* "1~a" was compared with "1": lower one way, higher the other.
C18_Witness ==
    /\ vc_pc = "compared"
    /\ vc_a = <<49, OrdTilde, 97>>
    /\ vc_b = <<49>>
    /\ vc_r = [ab |-> -1, ba |-> 1, aa |-> 0]

---------------------------------------------------------------------------
(* dino/util.py: copy_stream with a size limit                             *)

\* The position of inf after copy_stream: the loop of CopyLoop, keeping the
\* count of bytes written so far in place of the bytes.
RECURSIVE CopyLoopPos(_, _, _, _, _)
CopyLoopPos(inf, pos, left, wrote, blocksize) ==
    IF left = 0 THEN pos
    ELSE LET n   == IF left < 0 THEN blocksize ELSE Min2(blocksize, left)
             buf == SubSeq(inf, pos + 1, Min2(pos + n, Len(inf)))
         IN  IF buf = <<>> THEN pos
             ELSE CopyLoopPos(inf, pos + Len(buf), left - (wrote + Len(buf)),
                              wrote + Len(buf), blocksize)

MaxCopySource == 7

MaxCopyBlock == 3

\* A source of n bytes, each byte its own position.
CopySource(n) == [i \in 1..n |-> i]

NoCopy == [size |-> 0, out |-> <<>>, pos |-> 0, ret |-> 0]

CopyStart ==
    /\ cp_pc = "new"
    /\ cp_inf \in {CopySource(n) : n \in 0..MaxCopySource}
    /\ cp_blocksize \in 1..MaxCopyBlock
    /\ cp_done = NoCopy

CopyIdle ==
    /\ cp_pc = "idle"
    /\ cp_inf = <<>>
    /\ cp_blocksize = 1
    /\ cp_done = NoCopy

\* copy_stream(inf, outf, size=n, blocksize=b) with inf at its start and
\* outf empty.
CopyStream ==
    /\ cp_pc = "new"
    /\ \E n \in 0..(MaxCopySource + 1) :
          LET out == copy_stream(cp_inf, 0, n, cp_blocksize)
          IN  cp_done' = [size |-> n,
                          out  |-> out,
                          pos  |-> CopyLoopPos(cp_inf, 0, n, 0, cp_blocksize),
                          ret  |-> Len(out)]
    /\ cp_pc' = "copied"
    /\ UNCHANGED <<cp_inf, cp_blocksize>>

\* C20 (size-limited copy): copy_stream(inf, outf, size=n) writes the first
\* min(n, bytes available) bytes of inf, reads none beyond them and returns
\* that number, also when n is more than two blocks.
C20_SizeLimitedCopy ==
    cp_pc = "copied" =>
        LET m == Min2(cp_done.size, Len(cp_inf))
        IN  /\ cp_done.out = SubSeq(cp_inf, 1, m)
            /\ cp_done.pos = m
            /\ cp_done.ret = m

---------------------------------------------------------------------------
(* dino/fileview.py: FileView, and BlobSection over a FileView             *)

\* FileView(fobj, offset, size): fobj holds `file` and stands at fpos;
\* has_getbuffer says whether fobj is a BytesIO.
FileView(file, fpos, offset, size, has_getbuffer) ==
    [file |-> file, fpos |-> fpos, base |-> offset, size |-> size,
     offset |-> 0, has_getbuffer |-> has_getbuffer]

FileViewTell(v) == v.offset

SEEK_SET == 0
SEEK_CUR == 1
SEEK_END == 2

\* FileView.seek: the view afterwards.
FileViewSeek(v, offset, whence) ==
    LET o == CASE whence = SEEK_SET -> offset
               [] whence = SEEK_CUR -> v.offset + offset
               [] whence = SEEK_END -> v.size + offset
    IN  [v EXCEPT !.offset = o, !.fpos = v.base + o]

\* fobj.read(n) of the underlying file at position pos: n < 0 reads to the
\* end.
FileReadAt(file, pos, n) ==
    IF n < 0 THEN SubSeq(file, pos + 1, Len(file))
    ELSE SubSeq(file, pos + 1, Min2(pos + n, Len(file)))

\* FileView.read: the bytes returned and the view afterwards.  The file
\* goes back to where it stood, and self._offset is not assigned.
FileViewRead(v, size) ==
    LET maxsize == v.size - v.offset
        sz      == IF size < 0 THEN maxsize ELSE size
        oldpos  == v.fpos
        sought  == FileViewSeek(v, v.offset, SEEK_SET)
        d       == FileReadAt(sought.file, sought.fpos, Min2(sz, maxsize))
    IN  [d |-> d, view |-> [sought EXCEPT !.fpos = oldpos]]

\* BlobSection.size with a FileView as self._data: the length of the whole
\* underlying buffer when it has getbuffer, the seek-and-tell branch
\* otherwise.
BlobViewSize(v) ==
    IF v.has_getbuffer THEN [size |-> Len(v.file), view |-> v]
    ELSE LET oldpos == FileViewTell(v)
             atend  == FileViewSeek(v, 0, SEEK_END)
         IN  [size |-> FileViewTell(atend),
              view |-> FileViewSeek(atend, oldpos, SEEK_SET)]

\* The bytes of the file that the view stands for.
ViewRange(v) == SubSeq(v.file, v.base + 1, v.base + v.size)

MaxViewFile == 4

MaxViewBlock == 2

MaxViewReads == 3

MaxViewCopied == 6

NoView == FileView(<<>>, 0, 0, 0, FALSE)

NoViewCopy == [left |-> 0, wrote |-> 0, out |-> <<>>, oldpos |-> 0]

\* BlobSection.from_file(fobj, size) with fobj at any position of a file.
ViewStart ==
    /\ fv_pc = "new"
    /\ \E n \in 0..MaxViewFile, g \in BOOLEAN :
          \E base \in 0..n :
             \E size \in 0..(n - base) :
                fv_view = FileView(CopySource(n), base, base, size, g)
    /\ fv_blocksize \in 1..MaxViewBlock
    /\ fv_chunks = <<>>
    /\ fv_copy = NoViewCopy

ViewIdle ==
    /\ fv_pc = "idle"
    /\ fv_view = NoView
    /\ fv_blocksize = 1
    /\ fv_chunks = <<>>
    /\ fv_copy = NoViewCopy

\* read(n) on the view, for n of one or two bytes or with no size.
ViewRead ==
    /\ fv_pc \in {"new", "reading"}
    /\ Len(fv_chunks) < MaxViewReads
    /\ \E n \in {-1, 1, 2} :
          LET r == FileViewRead(fv_view, n)
          IN  /\ fv_chunks' = Append(fv_chunks, r.d)
              /\ fv_view' = r.view
    /\ fv_pc' = "reading"
    /\ UNCHANGED <<fv_blocksize, fv_copy>>

\* BlobSection.write_to up to the first test of copy_stream's loop:
\* oldpos = tell(), seek(0), size=self.size.
ViewWriteTo ==
    /\ fv_pc = "new"
    /\ LET oldpos == FileViewTell(fv_view)
           s      == BlobViewSize(FileViewSeek(fv_view, 0, SEEK_SET))
       IN  /\ fv_view' = s.view
           /\ fv_copy' = [left |-> s.size, wrote |-> 0, out |-> <<>>,
                          oldpos |-> oldpos]
    /\ fv_pc' = "copying"
    /\ UNCHANGED <<fv_blocksize, fv_chunks>>

\* One turn of copy_stream's loop inside write_to; when the loop ends,
\* write_to seeks back and returns.
ViewCopyStep ==
    /\ fv_pc = "copying"
    /\ Len(fv_copy.out) <= MaxViewCopied
    /\ LET left == fv_copy.left
           n    == IF left < 0 THEN fv_blocksize ELSE Min2(fv_blocksize, left)
           r    == FileViewRead(fv_view, n)
           tot  == fv_copy.wrote + Len(r.d)
       IN  IF left = 0
           THEN /\ fv_view' = FileViewSeek(fv_view, fv_copy.oldpos, SEEK_SET)
                /\ fv_pc' = "copied"
                /\ UNCHANGED fv_copy
           ELSE IF r.d = <<>>
           THEN /\ fv_view' = FileViewSeek(r.view, fv_copy.oldpos, SEEK_SET)
                /\ fv_pc' = "copied"
                /\ UNCHANGED fv_copy
           ELSE /\ fv_view' = r.view
                /\ fv_copy' = [fv_copy EXCEPT !.left = left - tot,
                                              !.wrote = tot,
                                              !.out = @ \o r.d]
                /\ UNCHANGED fv_pc
    /\ UNCHANGED <<fv_blocksize, fv_chunks>>

\* C21 (FileView behaves like a file): successive reads give consecutive
\* chunks of the viewed range and tell() is the count of bytes read so
\* far; write_to on a section read back from a file never writes more than
\* the section's size and ends having written exactly the viewed bytes.
C21_FileViewLikeFile ==
    /\ fv_pc = "reading" =>
          /\ Concat(fv_chunks) =
                SubSeq(ViewRange(fv_view), 1, Len(Concat(fv_chunks)))
          /\ FileViewTell(fv_view) = Len(Concat(fv_chunks))
    /\ fv_pc \in {"copying", "copied"} =>
          Len(fv_copy.out) <= fv_view.size
    /\ fv_pc = "copied" => fv_copy.out = ViewRange(fv_view)

---------------------------------------------------------------------------
(* dino/section.py: IndexFlags, IndexInfo                                  *)

\* a | b and a & b on non-negative integers.
RECURSIVE BitOr(_, _)
BitOr(a, b) ==
    IF a = 0 THEN b
    ELSE IF b = 0 THEN a
    ELSE 2 * BitOr(a \div 2, b \div 2)
         + (IF a % 2 = 1 \/ b % 2 = 1 THEN 1 ELSE 0)

RECURSIVE BitAnd(_, _)
BitAnd(a, b) ==
    IF a = 0 \/ b = 0 THEN 0
    ELSE 2 * BitAnd(a \div 2, b \div 2)
         + (IF a % 2 = 1 /\ b % 2 = 1 THEN 1 ELSE 0)

\* a << n and a >> n
RECURSIVE ShiftLeft(_, _)
ShiftLeft(a, n) == IF n = 0 THEN a ELSE ShiftLeft(2 * a, n - 1)

RECURSIVE ShiftRight(_, _)
ShiftRight(a, n) == IF n = 0 THEN a ELSE ShiftRight(a \div 2, n - 1)

IndexFlagsNONE == 0
IndexFlagsNoFanout == 1
IndexFlagsOff64 == 2
IndexFlagsUncSize == 4

\* IndexInfo(othersec, keysize, fanout, off64, unc_size)
IndexInfo(othersec, keysize, fanout, off64, unc_size) ==
    [othersec |-> othersec, keysize |-> keysize, fanout |-> fanout,
     off64 |-> off64, unc_size |-> unc_size]

\* IndexInfo.flags: "x and FLAG" is FLAG when x holds and False, which is
\* 0, when it does not.
IndexInfoFlagsWord(info) ==
    BitOr(BitOr(BitOr(IndexFlagsNONE,
                      IF ~info.fanout THEN IndexFlagsNoFanout ELSE 0),
                IF info.off64 THEN IndexFlagsOff64 ELSE 0),
          IF info.unc_size THEN IndexFlagsUncSize ELSE 0)

\* to_int with othersec shifted by four bits only.
IndexInfoToIntNarrow(info) ==
    IF info.othersec < 0 \/ info.othersec > 255
    THEN [err |-> "ValueError", val |-> 0]
    ELSE IF info.keysize < 0 \/ info.keysize > 255
    THEN [err |-> "ValueError", val |-> 0]
    ELSE [err |-> "none",
          val |-> BitOr(BitOr(info.keysize, ShiftLeft(info.othersec, 4)),
                        ShiftLeft(IndexInfoFlagsWord(info), 16))]

\* IndexInfo.to_int
IndexInfoToInt(info) ==
    IF info.othersec < 0 \/ info.othersec > 255
    THEN [err |-> "ValueError", val |-> 0]
    ELSE IF info.keysize < 0 \/ info.keysize > 255
    THEN [err |-> "ValueError", val |-> 0]
    ELSE [err |-> "none",
          val |-> BitOr(BitOr(info.keysize, ShiftLeft(info.othersec, 8)),
                        ShiftLeft(IndexInfoFlagsWord(info), 16))]

\* IndexInfo.from_int
IndexInfoFromInt(info) ==
    LET flags == BitAnd(ShiftRight(info, 16), 255)
    IN  IndexInfo(BitAnd(ShiftRight(info, 8), 255),
                  BitAnd(info, 255),
                  BitAnd(flags, IndexFlagsNoFanout) # IndexFlagsNoFanout,
                  BitAnd(flags, IndexFlagsOff64) = IndexFlagsOff64,
                  BitAnd(flags, IndexFlagsUncSize) = IndexFlagsUncSize)

\* The key widths and table positions tried: the ends of 0..255, values
\* inside and values outside.
InfoByteSamples == {-1, 0, 1, 2, 32, 128, 255, 256, 300}

NoInfo == IndexInfo(0, 0, TRUE, FALSE, TRUE)

NoInfoInt == [err |-> "none", val |-> 0]

\* No section: what othersec gives when it gives None.
NoneSection == -1

NoInfoSec == [err |-> "none", othersec |-> NoneSection]

\* IndexSection.from_hdr(shdr) for a header with this info word, the
\* section then added to a container whose table is sectab, and
\* sec.othersec: __init__ raises ValueError for an othersec_idx that is
\* falsy, and the property looks the table up only for one that is not.
IndexFromHdrOthersec(info, sectab) ==
    LET parsed       == IndexInfoFromInt(info)
        othersec_idx == parsed.othersec
    IN  IF othersec_idx = 0
        THEN [err |-> "ValueError", othersec |-> NoneSection]
        ELSE IF othersec_idx >= Len(sectab)
        THEN [err |-> "IndexError", othersec |-> NoneSection]
        ELSE [err |-> "none", othersec |-> sectab[othersec_idx + 1]]

\* The table of a container of n sections, each section standing for its
\* own position.
TableOf(n) == [i \in 1..n |-> i - 1]

\* The most sections a container header can count.
MaxSectionCount == 255

InfoStart ==
    /\ ii_pc = "new"
    /\ \E o \in InfoByteSamples, k \in InfoByteSamples :
          \E f \in BOOLEAN, o64 \in BOOLEAN, u \in BOOLEAN :
             ii_info = IndexInfo(o, k, f, o64, u)
    /\ ii_int = NoInfoInt
    /\ ii_back = NoInfo
    /\ ii_sec = NoInfoSec

InfoIdle ==
    /\ ii_pc = "idle"
    /\ ii_info = NoInfo
    /\ ii_int = NoInfoInt
    /\ ii_back = NoInfo
    /\ ii_sec = NoInfoSec

\* info.to_int()
InfoToInt ==
    /\ ii_pc = "new"
    /\ ii_int' = IndexInfoToInt(ii_info)
    /\ ii_pc' = "packed"
    /\ UNCHANGED <<ii_info, ii_back, ii_sec>>

\* IndexInfo.from_int(n) of the integer to_int gave
InfoFromInt ==
    /\ ii_pc = "packed"
    /\ ii_int.err = "none"
    /\ ii_back' = IndexInfoFromInt(ii_int.val)
    /\ ii_pc' = "unpacked"
    /\ UNCHANGED <<ii_info, ii_int, ii_sec>>

\* IndexSection.from_hdr on a header holding the info word to_int gave,
\* in a container of the most sections there can be, and sec.othersec.
InfoFromHdr ==
    /\ ii_pc = "packed"
    /\ ii_int.err = "none"
    /\ ii_sec' = IndexFromHdrOthersec(ii_int.val, TableOf(MaxSectionCount))
    /\ ii_pc' = "attached"
    /\ UNCHANGED <<ii_info, ii_int, ii_back>>

\* C24 (info word round trip): with keysize and othersec in 0..255 and any
\* fanout, off64 and unc_size, to_int gives an integer of at most 32 bits
\* and from_int of it gives the IndexInfo back; with keysize or othersec
\* outside 0..255 to_int raises ValueError.
C24_InfoRoundTrip ==
    LET inrange == /\ ii_info.keysize \in 0..255
                   /\ ii_info.othersec \in 0..255
    IN  /\ ii_pc \in {"packed", "unpacked"} =>
              IF inrange
              THEN /\ ii_int.err = "none"
                   /\ ii_int.val >= 0
                   /\ ii_int.val \div 65536 < 65536
              ELSE ii_int.err = "ValueError"
        /\ ii_pc = "unpacked" => ii_back = ii_info

\* C25 (othersec resolves by table position): for every position p of the
\* section table, position 0 included, the index section made by from_hdr
\* from a header whose info word names p resolves othersec to the section
\* at position p.
C25_OthersecByPosition ==
    (ii_pc = "attached" /\ ii_info.othersec \in 0..(MaxSectionCount - 1)) =>
        /\ ii_sec.err = "none"
        /\ ii_sec.othersec = TableOf(MaxSectionCount)[ii_info.othersec + 1]

\* The info word of keysize 255, othersec 255, no fanout, off64 and unc_size
\* was packed and read back.
C24_Witness ==
    /\ ii_pc = "unpacked"
    /\ ii_info = IndexInfo(255, 255, FALSE, TRUE, TRUE)
    /\ ii_int.val = 255 + 255 * 256 + 7 * 65536
    /\ ii_back = ii_info

---------------------------------------------------------------------------
(* dino/section.py: sectionclass over the runs of a program                *)

\* The type ids a section header can hold: one byte.
TypeIds == 0..255

MaxDispatchCalls == 3

\* One run of the program: the order in which the set of subclasses yields
\* the two classes of type Blob is fixed when the classes are made and may
\* differ from run to run.
DispatchStart ==
    /\ sc_pc = "run"
    /\ sc_typeid \in TypeIds
    /\ sc_bytesfirst \in BOOLEAN
    /\ sc_calls = <<>>

DispatchIdle ==
    /\ sc_pc = "idle"
    /\ sc_typeid = 0
    /\ sc_bytesfirst = FALSE
    /\ sc_calls = <<>>

\* sectionclass(typeid)
DispatchCall ==
    /\ sc_pc = "run"
    /\ Len(sc_calls) < MaxDispatchCalls
    /\ sc_calls' = Append(sc_calls,
                          ThisSection([stype |-> sc_typeid], sc_bytesfirst))
    /\ UNCHANGED <<sc_pc, sc_typeid, sc_bytesfirst>>

\* The program is started again.
DispatchNewRun ==
    /\ sc_pc = "run"
    /\ sc_calls # <<>>
    /\ Len(sc_calls) < MaxDispatchCalls
    /\ sc_bytesfirst' \in BOOLEAN
    /\ UNCHANGED <<sc_pc, sc_typeid, sc_calls>>

\* C26 (section dispatch is deterministic): at most one section class
\* carries each type id, and sectionclass gives the same class for a type
\* id on every call and in every run.
C26_DeterministicDispatch ==
    sc_calls # <<>> =>
        /\ Cardinality(sectionclass(sc_typeid)) <= 1
        /\ \A i \in 1..Len(sc_calls), j \in 1..Len(sc_calls) :
              sc_calls[i] = sc_calls[j]

---------------------------------------------------------------------------
(* dino/section.py: BlobSection over its SpooledTemporaryFile              *)

\* SpooledTemporaryFile(max_size=16*1024), scaled down: the store is a
\* BytesIO until a write leaves the position past max_size, a file on disk
\* from then on.
SpoolMaxSize == 2

MaxBlobBlock == 2

MaxBlobSize == 4

MaxBlobOps == 2

NewStore == [data |-> <<>>, pos |-> 0, rolled |-> FALSE]

\* fobj.write(b) at the current position.
StoreWrite(st, b) ==
    LET end == st.pos + Len(b)
    IN  [data   |-> SubSeq(st.data, 1, st.pos) \o b
                    \o SubSeq(st.data, end + 1, Len(st.data)),
         pos    |-> end,
         rolled |-> st.rolled \/ end > SpoolMaxSize]

\* fobj.seek(offset, whence) and fobj.tell()
StoreSeek(st, offset, whence) ==
    [st EXCEPT !.pos = CASE whence = SEEK_SET -> offset
                         [] whence = SEEK_CUR -> st.pos + offset
                         [] whence = SEEK_END -> Len(st.data) + offset]

StoreTell(st) == st.pos

\* BlobSection.size: the length of the buffer while the store is in
\* memory, seek and tell once it is a file; the size and the store after.
BlobStoreSize(st) ==
    IF ~st.rolled THEN [size |-> Len(st.data), store |-> st]
    ELSE LET oldpos == StoreTell(st)
             atend  == StoreSeek(st, 0, SEEK_END)
         IN  [size  |-> StoreTell(atend),
              store |-> StoreSeek(atend, oldpos, SEEK_SET)]

\* write_to without the seek back to the old position.
BlobStoreWriteToNoSeekBack(st, blocksize) ==
    LET oldpos == StoreTell(st)
        start  == StoreSeek(st, 0, SEEK_SET)
        s      == BlobStoreSize(start)
        out    == copy_stream(s.store.data, StoreTell(s.store), s.size,
                              blocksize)
        after  == [s.store EXCEPT
                      !.pos = CopyLoopPos(s.store.data, StoreTell(s.store),
                                          s.size, 0, blocksize)]
    IN  [out |-> out, ret |-> Len(out), store |-> after]

\* BlobSection.write_to(fobj): the bytes written to fobj, the value
\* returned and the store after.
BlobStoreWriteTo(st, blocksize) ==
    LET oldpos == StoreTell(st)
        start  == StoreSeek(st, 0, SEEK_SET)
        s      == BlobStoreSize(start)
        out    == copy_stream(s.store.data, StoreTell(s.store), s.size,
                              blocksize)
        after  == [s.store EXCEPT
                      !.pos = CopyLoopPos(s.store.data, StoreTell(s.store),
                                          s.size, 0, blocksize)]
    IN  [out |-> out, ret |-> Len(out),
         store |-> StoreSeek(after, oldpos, SEEK_SET)]

NoBlobOp == [op |-> "none", before |-> NewStore, ret |-> 0]

BlobStart ==
    /\ bs_pc = "open"
    /\ bs_store = NewStore
    /\ bs_blocksize \in 1..MaxBlobBlock
    /\ bs_last = NoBlobOp
    /\ bs_n = 0

BlobIdle ==
    /\ bs_pc = "idle"
    /\ bs_store = NewStore
    /\ bs_blocksize = 1
    /\ bs_last = NoBlobOp
    /\ bs_n = 0

\* sec.fobj.write(b): one or two bytes, each byte its own place in the
\* count of bytes written so far.
BlobAppend ==
    /\ bs_pc = "open"
    /\ Len(bs_store.data) + 2 <= MaxBlobSize
    /\ \E k \in 1..2 :
          LET b == [i \in 1..k |-> 10 * (bs_n + 1) + i]
          IN  /\ bs_store' = StoreWrite(bs_store, b)
              /\ bs_last' = [op |-> "write", before |-> bs_store, ret |-> k]
    /\ UNCHANGED <<bs_pc, bs_blocksize, bs_n>>

\* sec.fobj.seek(offset): a reader of the section moves the position.
BlobSeek ==
    /\ bs_pc = "open"
    /\ \E offset \in 0..Len(bs_store.data) :
          /\ offset # bs_store.pos
          /\ bs_store' = StoreSeek(bs_store, offset, SEEK_SET)
          /\ bs_last' = [op |-> "seek", before |-> bs_store, ret |-> offset]
    /\ UNCHANGED <<bs_pc, bs_blocksize, bs_n>>

\* sec.size
BlobSize ==
    /\ bs_pc = "open"
    /\ bs_n < MaxBlobOps
    /\ LET s == BlobStoreSize(bs_store)
       IN  /\ bs_store' = s.store
           /\ bs_last' = [op |-> "size", before |-> bs_store, ret |-> s.size]
    /\ bs_n' = bs_n + 1
    /\ UNCHANGED <<bs_pc, bs_blocksize>>

\* sec.write_to(fobj) for an fobj that takes every write
BlobWriteTo ==
    /\ bs_pc = "open"
    /\ bs_n < MaxBlobOps
    /\ LET w == BlobStoreWriteTo(bs_store, bs_blocksize)
       IN  /\ bs_store' = w.store
           /\ bs_last' = [op |-> "write_to", before |-> bs_store,
                          ret |-> w.ret]
    /\ bs_n' = bs_n + 1
    /\ UNCHANGED <<bs_pc, bs_blocksize>>

\* C27 (writing out does not disturb the append cursor): size and write_to
\* leave the bytes of the backing store and its position as they were,
\* whether the store is in memory or on disk and wherever it stands; a
\* store that stood at its end stands at its end afterwards.
C27_CursorUndisturbed ==
    bs_last.op \in {"size", "write_to"} =>
        /\ bs_store.data = bs_last.before.data
        /\ bs_store.pos = bs_last.before.pos
        /\ bs_store.rolled = bs_last.before.rolled
        /\ bs_last.before.pos = Len(bs_last.before.data) =>
              bs_store.pos = Len(bs_store.data)

\* write_to ran on a store on disk of four bytes that stood at byte 1.
C27_Witness ==
    /\ bs_last.op = "write_to"
    /\ bs_store.rolled
    /\ Len(bs_store.data) = 4
    /\ bs_store.pos = 1

---------------------------------------------------------------------------
(* dino/compression.py: MultiCompressor over a streaming compressor        *)

\* A compressor object (lzma.LZMACompressor): it keeps the bytes it has
\* seen, and writes a byte it has seen before as a reference to the place
\* it saw it first. The stream starts with a magic byte and ends with an
\* end mark, which flush() writes.
FrameMagic == 253

FrameEnd == 89

FrameRef == 200

NewCobj == [hist |-> <<>>]

FirstPlace(hist, b) ==
    CHOOSE p \in 1..Len(hist) :
        hist[p] = b /\ \A q \in 1..(p - 1) : hist[q] # b

\* cobj.compress(chunk): the bytes given out and the object after.
RECURSIVE CobjCompress(_, _)
CobjCompress(cobj, chunk) ==
    IF chunk = <<>> THEN [out |-> <<>>, cobj |-> cobj]
    ELSE LET b    == Head(chunk)
             seen == \E p \in 1..Len(cobj.hist) : cobj.hist[p] = b
             code == (IF cobj.hist = <<>> THEN <<FrameMagic>> ELSE <<>>)
                     \o (IF seen THEN <<FrameRef + FirstPlace(cobj.hist, b)>>
                         ELSE <<b>>)
             rest == CobjCompress([hist |-> Append(cobj.hist, b)], Tail(chunk))
         IN  [out |-> code \o rest.out, cobj |-> rest.cobj]

\* cobj.flush()
CobjFlush(cobj) ==
    (IF cobj.hist = <<>> THEN <<FrameMagic>> ELSE <<>>) \o <<FrameEnd>>

\* The loop of MultiCompressor.copy_stream.
RECURSIVE FrameCopyLoop(_, _, _, _, _, _)
FrameCopyLoop(inf, read, wrote, to_read, read_size, st) ==
    IF to_read = 0 \/ ~(read < to_read) THEN [read |-> read, st |-> st]
    ELSE LET want  == Min2(read_size, to_read)
             chunk == SubSeq(inf, read + 1, Min2(read + want, Len(inf)))
         IN  IF chunk = <<>> THEN [read |-> read, st |-> st]
             ELSE LET c == CobjCompress(st.cobj, chunk)
                  IN  FrameCopyLoop(inf, read + Len(chunk), wrote, to_read,
                                    read_size,
                                    [cobj |-> c.cobj, out |-> st.out \o c.out])

\* MultiCompressor.copy_stream(inf, outf, size, read_size): (read, wrote)
\* and the bytes written to outf.
MultiCopyStream(inf, size, read_size) ==
    LET cobj == NewCobj
        l    == FrameCopyLoop(inf, 0, 0, IF size = 0 THEN -1 ELSE size,
                              read_size, [cobj |-> cobj, out |-> <<>>])
        out  == l.st.out \o CobjFlush(l.st.cobj)
    IN  [read |-> l.read, wrote |-> Len(out), out |-> out]

\* The decoding of a stream from its n-th byte on: the content so far, and
\* whether the end mark was met.
RECURSIVE FrameDecode(_, _, _)
FrameDecode(data, n, content) ==
    IF n > Len(data) THEN [content |-> content, eof |-> FALSE]
    ELSE IF data[n] = FrameEnd THEN [content |-> content, eof |-> TRUE]
    ELSE IF data[n] > FrameRef
    THEN FrameDecode(data, n + 1, Append(content, content[data[n] - FrameRef]))
    ELSE FrameDecode(data, n + 1, Append(content, data[n]))

\* A decompressor object as get_decompressor makes it: lzma's
\* LZMADecompressor is done after one stream, zstd's ZstdDecompressor
\* keeps nothing between calls of decompress.
NewUnz(kind) == [kind |-> kind, eof |-> FALSE]

\* unz.decompress(data): the error raised or the content, and the object
\* after.
UnzDecompress(unz, data) ==
    IF unz.kind = "xz" /\ unz.eof
    THEN [err |-> "EOFError", out |-> <<>>, unz |-> unz]
    ELSE IF data = <<>> \/ data[1] # FrameMagic
    THEN [err |-> "LZMAError", out |-> <<>>, unz |-> unz]
    ELSE LET d == FrameDecode(data, 2, <<>>)
         IN  [err |-> "none", out |-> d.content,
              unz |-> [unz EXCEPT !.eof = (unz.kind = "xz") /\ d.eof]]

\* DINORPMArchive.write_file(key, outf): inf.seek(off), then
\* self._unz.decompress(inf.read(size)) written to outf.
write_file(store, entry, unz) ==
    UnzDecompress(unz, SubSeq(store, entry.offset + 1,
                              entry.offset + entry.size))

MaxFrames == 3

MaxFrameReads == 2

MaxFrameChunk == 2

\* The blobs stored: one with a byte that comes twice, two that start
\* alike.
FrameContents == {<<65>>, <<65, 66, 65>>, <<66, 66>>}

NoFrameRead == [called |-> FALSE, key |-> 0, err |-> "none", out |-> <<>>]

FrameStart ==
    /\ fr_pc = "open"
    /\ fr_unz \in {NewUnz("xz"), NewUnz("zstd")}
    /\ fr_read_size \in 1..MaxFrameChunk
    /\ fr_store = <<>>
    /\ fr_index = <<>>
    /\ fr_got = NoFrameRead
    /\ fr_reads = 0

FrameIdle ==
    /\ fr_pc = "idle"
    /\ fr_unz = NewUnz("zstd")
    /\ fr_read_size = 1
    /\ fr_store = <<>>
    /\ fr_index = <<>>
    /\ fr_got = NoFrameRead
    /\ fr_reads = 0

\* One blob stored as merge_rpms stores it: offset = the position of the
\* section, copy_stream, then the index entry (offset, size, usize).
FrameStore ==
    /\ fr_pc = "open"
    /\ Len(fr_index) < MaxFrames
    /\ \E content \in FrameContents :
          LET offset == Len(fr_store)
              z      == MultiCopyStream(content, Len(content), fr_read_size)
          IN  /\ fr_store' = fr_store \o z.out
              /\ fr_index' = Append(fr_index,
                                    [offset |-> offset, size |-> z.wrote,
                                     usize |-> z.read, content |-> content])
    /\ UNCHANGED <<fr_pc, fr_unz, fr_read_size, fr_got, fr_reads>>

\* write_file(key, outf) for an entry of the index
FrameWriteFile ==
    /\ fr_pc = "open"
    /\ fr_reads < MaxFrameReads
    /\ \E key \in 1..Len(fr_index) :
          LET r == write_file(fr_store, fr_index[key], fr_unz)
          IN  /\ fr_got' = [called |-> TRUE, key |-> key, err |-> r.err,
                            out |-> r.out]
              /\ fr_unz' = r.unz
    /\ fr_reads' = fr_reads + 1
    /\ UNCHANGED <<fr_pc, fr_read_size, fr_store, fr_index>>

\* The bytes of the range an entry of the index records.
FrameRange(entry) ==
    SubSeq(fr_store, entry.offset + 1, entry.offset + entry.size)

\* The bytes stored for a blob depend on its content only, each recorded
\* range is one stream from its magic byte to its one end mark, and a
\* decompressor that has done nothing else gives the content back.
FramesStandAlone ==
    \A i \in 1..Len(fr_index) :
        LET e == fr_index[i]
            f == FrameRange(e)
        IN  /\ \A j \in 1..Len(fr_index) :
                  fr_index[j].content = e.content => FrameRange(fr_index[j]) = f
            /\ f[1] = FrameMagic
            /\ {n \in 1..Len(f) : f[n] = FrameEnd} = {Len(f)}
            /\ e.usize = Len(e.content)
            /\ UnzDecompress(NewUnz(fr_unz.kind), f).err = "none"
            /\ UnzDecompress(NewUnz(fr_unz.kind), f).out = e.content

\* C30 (frames are independent): the bytes stored for a blob depend only
\* on its content, not on the blobs stored before it through the same
\* compressor, and the range the index records for it decompresses on its
\* own, whatever was decompressed before, to the content, whose length is
\* the uncompressed size recorded.
C30_FramesIndependent ==
    /\ FramesStandAlone
    /\ fr_got.called =>
          /\ fr_got.err = "none"
          /\ fr_got.out = fr_index[fr_got.key].content
          /\ Len(fr_got.out) = fr_index[fr_got.key].usize

---------------------------------------------------------------------------
(* dino/varint.py: claim                                                   *)


\* The width the VARINT_MAXVAL_WIDTH table gives a value: the least w with
\* v <= VARINT_MAXVAL_WIDTH[w], and VARINT_MAXLEN above the last entry.
TableWidth(v) ==
    1 + Cardinality({w \in 1..(VARINT_MAXLEN - 1) :
                        BigGreater(v, VARINT_MAXVAL_WIDTH[w])})

\* C7 (varint law): decoding the encoding of v gives (v, length of the
\* encoding); 0 encodes to the single byte 0x00; the encoding is w bytes
\* long exactly up to VARINT_MAXVAL_WIDTH[w] and one byte longer above it,
\* so its length never decreases as v grows.
C7_VarintLaw ==
    /\ vi_pc = "decoded" =>
          vi_dec = [err |-> "none", val |-> vi_in, n |-> Len(vi_enc)]
    /\ vi_pc \in {"encoded", "decoded"} =>
          /\ (vi_in = BigZero => vi_enc = <<0>>)
          /\ Len(vi_enc) = TableWidth(vi_in)

\* A value of full width has been encoded and decoded.
C7_Witness ==
    /\ vi_pc = "decoded"
    /\ vi_in = VARINT_MAXVAL
    /\ Len(vi_enc) = VARINT_MAXLEN

---------------------------------------------------------------------------
(* rpmtoys/digest.py, dino/compression.py, binascii                        *)

RECURSIVE SumBytes(_)
SumBytes(b) == IF b = <<>> THEN 0 ELSE Head(b) + SumBytes(Tail(b))

\* The width in bytes of the digests of the model.
DigestSize == 2

\* gethasher(algo), update(data), digest(): a function of the algorithm and
\* the bytes, taken without collisions over the contents of the model.
HashDigest(algo, data) ==
    [i \in 1..DigestSize |->
        IF i = 1 THEN (16 * algo + Len(data)) % 256
        ELSE (SumBytes(data) * i + algo) % 256]

\* hashsize(algo): the width of the digests of the algorithm.
hashsize(algo) == Len(HashDigest(algo, <<>>))

\* binascii.hexlify: two hex digits a byte, high digit first.
Hexlify(b) ==
    [i \in 1..(2 * Len(b)) |->
        IF i % 2 = 1 THEN b[(i + 1) \div 2] \div 16 ELSE b[i \div 2] % 16]

\* binascii.unhexlify
Unhexlify(h) == [i \in 1..(Len(h) \div 2) |-> 16 * h[2*i - 1] + h[2*i]]

\* hasher.hexdigest()
HashHexDigest(algo, data) == Hexlify(HashDigest(algo, data))

\* A compression id or name as a Python value: an int, a str (its code
\* points) or None.
WhichInt(n) == [pytype |-> "int", val |-> <<n>>]

WhichStr(s) == [pytype |-> "str", val |-> s]

WhichNone == [pytype |-> "None", val |-> <<>>]

\* str.lower() over ASCII.
Lower(s) == [i \in 1..Len(s) |-> IF s[i] \in 65..90 THEN s[i] + 32 ELSE s[i]]

\* cidmap: the lower-case member names of CompressionID, 'gzip' and 'gz'.
cidmap(name) ==
    CASE name = <<110, 111, 110, 101>> -> 0
      [] name = <<122, 108, 105, 98>>  -> 1
      [] name = <<108, 122, 109, 97>>  -> 2
      [] name = <<108, 122, 111>>      -> 3
      [] name = <<120, 122>>           -> 4
      [] name = <<108, 122, 52>>       -> 5
      [] name = <<122, 115, 116, 100>> -> 6
      [] name = <<103, 122, 105, 112>> -> 1
      [] name = <<103, 122>>           -> 1
      [] OTHER                         -> -1

\* get_compressid(which): the CompressionID, -1 for the None that
\* cidmap.get gives for a name it does not hold, or the error raised.
get_compressid(which) ==
    IF which.pytype = "int"
    THEN IF which.val[1] \in CompressionIDValues
         THEN [err |-> "none", id |-> which.val[1]]
         ELSE [err |-> "ValueError", id |-> -1]
    ELSE IF which.pytype = "None" THEN [err |-> "none", id |-> 0]
    ELSE [err |-> "none", id |-> cidmap(Lower(which.val))]

\* get_compressor(which, level): "zstd", "xz" or the error raised; the
\* message of NotImplementedError reads which.name, which None has not.
get_compressor(which) ==
    IF get_compressid(which).err # "none" THEN get_compressid(which).err
    ELSE IF get_compressid(which).id = 6 THEN "zstd"
    ELSE IF get_compressid(which).id = 4 THEN "xz"
    ELSE IF get_compressid(which).id = -1 THEN "AttributeError"
    ELSE "NotImplementedError"

\* The decompressor never refused.
get_decompressor_any(which) ==
    IF get_compressid(which).err # "none" THEN get_compressid(which).err
    ELSE IF get_compressid(which).id = 6 THEN "zstd"
    ELSE "xz"

\* get_decompressor(which): "zstd", "xz" or the error raised.
get_decompressor(which) ==
    IF get_compressid(which).err # "none" THEN get_compressid(which).err
    ELSE IF get_compressid(which).id = 6 THEN "zstd"
    ELSE IF get_compressid(which).id = 4 THEN "xz"
    ELSE "NotImplementedError"

\* One compressed frame: a frame header with the length, the data, an end
\* mark (lzma.LZMACompressor: compress then flush).
CompressFrame(data) == <<253, Len(data)>> \o data \o <<89>>

\* decompress() of one whole frame.
DecompressFrame(frame) == SubSeq(frame, 3, Len(frame) - 1)

\* DEFAULT_CHUNK_SIZE
DEFAULT_CHUNK_SIZE == 4 * 1024

\* The read loop of MultiCompressor.copy_stream: the count of bytes read.
RECURSIVE ZReadLoop(_, _, _)
ZReadLoop(inf, read, to_read) ==
    IF to_read = 0 \/ ~(read < to_read) THEN read
    ELSE LET n == Min2(Min2(DEFAULT_CHUNK_SIZE, to_read), Len(inf) - read)
         IN  IF n <= 0 THEN read ELSE ZReadLoop(inf, read + n, to_read)

\* copy_stream with the bytes of the flush written but not counted.
ZCopyStreamFlushNotCounted(inf, size) ==
    LET read  == ZReadLoop(inf, 0, IF size = 0 THEN -1 ELSE size)
        frame == CompressFrame(SubSeq(inf, 1, read))
    IN  [read |-> read, wrote |-> Len(frame) - 1, out |-> frame]

\* MultiCompressor.copy_stream(inf, outf, size): (read, wrote) and the
\* frame written; size 0 reads to the end of inf.
ZCopyStream(inf, size) ==
    LET read  == ZReadLoop(inf, 0, IF size = 0 THEN -1 ELSE size)
        frame == CompressFrame(SubSeq(inf, 1, read))
    IN  [read |-> read, wrote |-> Len(frame), out |-> frame]

---------------------------------------------------------------------------
(* mkdino.py: merge_rpms, DINORPMArchive                                   *)

\* DINORPMArchive.idxalgo: DigestID.SHA256
IdxAlgo == 8

\* The settings of the two indexes of make_sections.
ArchiveIndexCfg ==
    [keysize |-> hashsize(IdxAlgo), fanout |-> TRUE, varint |-> FALSE,
     unc_size |-> TRUE]

\* The retained header bytes of a package: signature header, then header.
SigBytes(pkg) == <<1, pkg.hid>>

HdrBytes(pkg) == <<2, pkg.hid, Len(pkg.files)>>

\* hdr = fobj.read(r.headersize - 0x60)
RetainedHeader(pkg) == SigBytes(pkg) \o HdrBytes(pkg)

\* b''.join(struct.pack('I', i) for i in payload_order)
PackOrder(order) == Concat([i \in 1..Len(order) |-> PackU32LE(order[i])])

\* struct.iter_unpack("I", data)
UnpackOrder(data) ==
    [i \in 1..(Len(data) \div 4) |->
        <<UnpackU32LE(SubSeq(data, 4*i - 3, 4*i))>>]

\* The digest test left out.
DigestMismatchNever(hexdigest, declared) == FALSE

\* h.hexdigest() != digests[idx]
DigestMismatch(hexdigest, declared) == hexdigest # declared

\* The index test left out: every file is stored.
FileKeyMissingAlways(fileidx, filekey) == TRUE

\* filekey not in d.fileidx
FileKeyMissing(fileidx, filekey) == ~IndexContains(fileidx, filekey)

\* The loop of merge_rpms over the payload of one package, from the n-th
\* payload entry on: a is the archive so far (file index, file data, the
\* payload order seen, whether it is the header's order, the error raised).
RECURSIVE MergeFiles(_, _, _)
MergeFiles(a, pkg, n) ==
    IF n > Len(pkg.order) THEN a
    ELSE
    LET idx   == pkg.order[n]
        file  == pkg.files[idx + 1]
        a1    == [a EXCEPT !.payload_order = Append(@, idx),
                           !.in_order = @ /\ (idx = n - 1)]
    IN  IF file.content = <<>> THEN MergeFiles(a1, pkg, n + 1)
        ELSE IF DigestMismatch(HashHexDigest(pkg.algo, file.content),
                               file.declared)
        THEN [a1 EXCEPT !.err = "VerifyError", !.failed_at = n]
        ELSE
        LET filekey == HashDigest(IdxAlgo, file.content)
        IN  IF FileKeyMissing(a1.fileidx, filekey)
            THEN LET offset == Len(a1.filedata)
                     z      == ZCopyStream(file.content, Len(file.content))
                 IN  MergeFiles(
                         [a1 EXCEPT
                             !.filedata = @ \o z.out,
                             !.fileidx = IndexAdd(ArchiveIndexCfg, @, filekey,
                                                  offset, z.wrote, z.read)],
                         pkg, n + 1)
            ELSE MergeFiles(a1, pkg, n + 1)

\* The header digest test left out.
SigMismatchNever(sigkey, hexdigest) == FALSE

\* sigkey != h.hexdigest()
SigMismatch(sigkey, hexdigest) == sigkey # hexdigest

\* The rest of the loop body: the header digest test, the payload order
\* appended, the header stored and indexed.
MergeHeader(a, pkg) ==
    LET hdr0 == RetainedHeader(pkg)
    IN  IF pkg.sigkey # <<>> /\
           SigMismatch(pkg.sigkey, HashHexDigest(IdxAlgo, HdrBytes(pkg)))
        THEN [a EXCEPT !.err = "VerifyError"]
        ELSE
        LET hdr    == IF a.in_order THEN hdr0
                      ELSE hdr0 \o PackOrder(a.payload_order)
            offset == Len(a.rpmhdr)
            z      == ZCopyStream(hdr, Len(hdr))
            pkgkey == HashDigest(IdxAlgo, hdr)
        IN  [a EXCEPT !.rpmhdr = @ \o z.out,
                      !.rpmidx = IndexAdd(ArchiveIndexCfg, @, pkgkey, offset,
                                          z.wrote, z.read)]

\* One pass of the loop of merge_rpms.
MergeOne(fileidx, filedata, rpmidx, rpmhdr, pkg) ==
    LET a0 == [fileidx |-> fileidx, filedata |-> filedata, rpmidx |-> rpmidx,
               rpmhdr |-> rpmhdr, payload_order |-> <<>>, in_order |-> TRUE,
               err |-> "none", failed_at |-> 0]
        a1 == MergeFiles(a0, pkg, 1)
    IN  IF a1.err # "none" THEN a1 ELSE MergeHeader(a1, pkg)

\* The names of the sections of DINORPMArchive.make_sections:
\* '.rpmhdr.idx', '.rpmhdr', '.filedata.idx', '.filedata'.
NameRpmIdx == <<46, 114, 112, 109, 104, 100, 114, 46, 105, 100, 120>>

NameRpmHdr == <<46, 114, 112, 109, 104, 100, 114>>

NameFileIdx ==
    <<46, 102, 105, 108, 101, 100, 97, 116, 97, 46, 105, 100, 120>>

NameFileData == <<46, 102, 105, 108, 101, 100, 97, 116, 97>>

\* The sections of make_sections, added in its order, with the data
\* merge_rpms has put in them.
ArchiveSections(fileidx, filedata, rpmidx, rpmhdr) ==
    LET s1 == add_section(<<>>, StringTableNew(<<>>),
                  Section("IndexSection", 1, <<>>, rpmidx, ArchiveIndexCfg, 1),
                  NameRpmIdx)
        s2 == add_section(s1.sectab, s1.namtab,
                  Section("RPMSection", 1, rpmhdr, <<>>, NoCfg, 0), NameRpmHdr)
        s3 == add_section(s2.sectab, s2.namtab,
                  Section("IndexSection", 1, <<>>, fileidx, ArchiveIndexCfg, 3),
                  NameFileIdx)
    IN  add_section(s3.sectab, s3.namtab,
                  Section("FileDataSection", 1, filedata, <<>>, NoCfg, 0),
                  NameFileData)

\* rpm(hdrbytes=hdr): the package the header bytes are of, and headersize,
\* the length of the header bytes without what was appended.
RpmOfHdrBytes(hdr, pkgs) ==
    CHOOSE p \in pkgs : SubSeq(hdr, 1, Len(RetainedHeader(p))) = RetainedHeader(p)

\* DINORPMArchive.get_rpmhdr(key): the package and its payload_order.
get_rpmhdr(rpmidx, rpmhdr, key, pkgs) ==
    LET tup == IndexGet(rpmidx, key)
        hdr == DecompressFrame(SubSeq(rpmhdr, tup[1] + 1, tup[1] + tup[2]))
        r   == RpmOfHdrBytes(hdr, pkgs)
        headersize == Len(RetainedHeader(r))
    IN  [r |-> r,
         payload_order |->
             IF Len(hdr) > headersize
             THEN <<"order", UnpackOrder(SubSeq(hdr, headersize + 1, Len(hdr)))>>
             ELSE <<"None", <<>>>>]

\* DINORPMArchive._write_rpm_payload(r, outf): the header indices of the
\* entries in the order they are emitted: zip_longest over the header's
\* digests, cpio headers and link targets.
WriteRpmPayloadOrder(r, payload_order) == [i \in 1..Len(r.files) |-> i - 1]

\* DINO.__init__: CompressionID(compression_id), the error it raises.
DinoInitCompression(which) ==
    IF which.pytype = "int" /\ which.val[1] \in CompressionIDValues
    THEN "none" ELSE "ValueError"

\* The start of merge_rpms: DINORPMArchive(compression_id=which), which
\* makes the DINO object and its decompressor, then the two compressors;
\* the first error raised.
ArchiveOpen(which) ==
    IF DinoInitCompression(which) # "none" THEN DinoInitCompression(which)
    ELSE IF get_decompressor(which) \notin {"xz", "zstd"}
    THEN get_decompressor(which)
    ELSE IF get_compressor(which) \notin {"xz", "zstd"}
    THEN get_compressor(which)
    ELSE "none"

\* File contents of the model, one a one-byte change of another.
ContentA == <<65, 66>>

ContentB == <<66>>

ContentX == <<65, 67>>

\* A payload file whose recorded digest is the digest of its content.
GoodFile(content, algo) ==
    [content |-> content, declared |-> HashHexDigest(algo, content)]

\* A payload file whose bytes are not the ones its digest was recorded of.
CorruptFile(content, recorded, algo) ==
    [content |-> content, declared |-> HashHexDigest(algo, recorded)]

\* A directory, link or empty file: no data is stored for it.
NoDataFile == [content |-> <<>>, declared |-> <<>>]

\* A package: the algorithm of its file digests, its files in header
\* order, the header indices of its payload entries in payload order, and
\* the SHA256 of its header as the signature header records it, if it does.
\* The names of a header's file list are distinct, so a payload entry is
\* named by the header index of its name. A file the header lists and the
\* payload does not hold (a %ghost file) has no place in the order.
Package(hid, algo, files, order, sigkey) ==
    [hid |-> hid, algo |-> algo, files |-> files, order |-> order,
     sigkey |-> sigkey]

PackageSamples ==
    { Package(1, 8, <<GoodFile(ContentA, 8), GoodFile(ContentB, 8)>>,
              <<0, 1>>, <<>>),
      Package(2, 1, <<GoodFile(ContentB, 1), GoodFile(ContentA, 1)>>,
              <<1, 0>>, HashHexDigest(IdxAlgo, <<2, 2, 2>>)),
      Package(3, 8, <<NoDataFile, GoodFile(ContentA, 8),
                      GoodFile(ContentA, 8)>>,
              <<1, 2, 0>>, <<>>),
      Package(4, 8, <<GoodFile(ContentB, 8),
                      CorruptFile(ContentX, ContentA, 8)>>,
              <<0, 1>>, <<>>),
      Package(5, 1, <<CorruptFile(ContentX, ContentA, 1)>>, <<0>>, <<>>),
      Package(6, 8, <<GoodFile(ContentX, 8)>>, <<0>>,
              HashHexDigest(IdxAlgo, <<2, 6, 0>>)),
      Package(7, 8, <<GoodFile(ContentB, 8), NoDataFile>>, <<0>>, <<>>) }

\* The most packages one run of merge_rpms is given.
MaxPackages == 3

NoPackage == Package(0, 0, <<>>, <<>>, <<>>)

NoExtract == [r |-> NoPackage, payload_order |-> <<"None", <<>>>>,
              emitted |-> <<>>]

NoOutfile == [exists |-> FALSE, data |-> <<>>]

\* What is at the output path when merge_rpms is called: nothing, or a
\* file from before.
OutfileSamples == {NoOutfile, [exists |-> TRUE, data |-> <<9, 9>>]}

\* fnames, the header file list, each name as its index.
HeaderFileList(pkg) == [i \in 1..Len(pkg.files) |-> i - 1]

\* The names of the entries of r.payload_iter(), each name as its index in
\* the header file list.
PayloadNames(pkg) == pkg.order

\* The first payload position of a package whose file's bytes do not have
\* the recorded digest; 0 if there is none.
FirstCorrupt(pkg) ==
    LET bad == { n \in 1..Len(pkg.order) :
                   LET f == pkg.files[pkg.order[n] + 1]
                   IN  f.content # <<>> /\
                       HashHexDigest(pkg.algo, f.content) # f.declared }
    IN  IF bad = {} THEN 0 ELSE CHOOSE n \in bad : \A k \in bad : n <= k

\* The contents of the files with data of a package that come in the
\* payload before its first corrupt file.
VerifiedContents(pkg) ==
    { pkg.files[pkg.order[n] + 1].content :
        n \in { k \in 1..Len(pkg.order) :
                  /\ FirstCorrupt(pkg) = 0 \/ k < FirstCorrupt(pkg)
                  /\ pkg.files[pkg.order[k] + 1].content # <<>> } }

\* The frames of a section of compressed frames: offset, size, content.
RECURSIVE FramesOf(_, _)
FramesOf(data, pos) ==
    IF pos >= Len(data) THEN <<>>
    ELSE LET size == data[pos + 2] + 3
         IN  <<[offset |-> pos, size |-> size,
                content |-> DecompressFrame(SubSeq(data, pos + 1, pos + size))]>>
             \o FramesOf(data, pos + size)

\* The compression ids and names handed in: every CompressionID, an int
\* that is none, None, and names in either case, known and not.
WhichSamples ==
    {WhichInt(n) : n \in 0..7} \cup {WhichNone}
    \cup {WhichStr(s) : s \in {<<120, 122>>, <<88, 90>>, <<122, 115, 116, 100>>,
                                <<103, 122, 105, 112>>, <<108, 122, 52>>,
                                <<98, 122, 50>>}}

\* The ids and names that stand for XZ or ZSTD.
StandsForXzOrZstd(which) ==
    \/ which \in {WhichInt(4), WhichInt(6)}
    \/ which \in {WhichStr(<<120, 122>>), WhichStr(<<88, 90>>),
                   WhichStr(<<122, 115, 116, 100>>)}

NoPrev == [rpmidx |-> <<>>, rpmhdr |-> <<>>]

NoLookup == [compressor |-> "none", decompressor |-> "none"]

MergeStart ==
    /\ mg_pc = "new"
    /\ mg_which \in WhichSamples
    /\ mg_cz = NoLookup
    /\ mg_count = 0
    /\ mg_fileidx = <<>>
    /\ mg_filedata = <<>>
    /\ mg_rpmidx = <<>>
    /\ mg_rpmhdr = <<>>
    /\ mg_outfile \in OutfileSamples
    /\ mg_outfile0 = mg_outfile
    /\ mg_err = "none"
    /\ mg_last = NoPackage
    /\ mg_seen = {}
    /\ mg_prev = NoPrev
    /\ mg_x = NoExtract

MergeIdle ==
    /\ mg_pc = "idle"
    /\ mg_which = WhichNone
    /\ mg_cz = NoLookup
    /\ mg_count = 0
    /\ mg_fileidx = <<>>
    /\ mg_filedata = <<>>
    /\ mg_rpmidx = <<>>
    /\ mg_rpmhdr = <<>>
    /\ mg_outfile = NoOutfile
    /\ mg_outfile0 = NoOutfile
    /\ mg_err = "none"
    /\ mg_last = NoPackage
    /\ mg_seen = {}
    /\ mg_prev = NoPrev
    /\ mg_x = NoExtract

\* get_compressor(which) and get_decompressor(which), called by hand.
MergeLookup ==
    /\ mg_pc = "new"
    /\ mg_cz' = [compressor |-> get_compressor(mg_which),
                 decompressor |-> get_decompressor(mg_which)]
    /\ mg_pc' = "looked"
    /\ UNCHANGED <<mg_which, mg_count, mg_fileidx, mg_filedata, mg_rpmidx,
                   mg_rpmhdr, mg_outfile, mg_outfile0, mg_err, mg_last,
                   mg_seen, mg_prev, mg_x>>

\* merge_rpms(rpmiter, outfile, compression_id=which) up to its loop.
MergeOpen ==
    /\ mg_pc = "new"
    /\ mg_err' = ArchiveOpen(mg_which)
    /\ mg_pc' = IF ArchiveOpen(mg_which) = "none" THEN "run" ELSE "failed"
    /\ UNCHANGED <<mg_which, mg_cz, mg_count, mg_fileidx, mg_filedata,
                   mg_rpmidx, mg_rpmhdr, mg_outfile, mg_outfile0, mg_last,
                   mg_seen, mg_prev, mg_x>>

\* One pass of the loop of merge_rpms, on the next package of rpmiter; an
\* exception ends the run.
MergePackage ==
    /\ mg_pc = "run"
    /\ mg_count < MaxPackages
    /\ \E pkg \in PackageSamples :
          LET a == MergeOne(mg_fileidx, mg_filedata, mg_rpmidx, mg_rpmhdr, pkg)
          IN  /\ mg_fileidx' = a.fileidx
              /\ mg_filedata' = a.filedata
              /\ mg_rpmidx' = a.rpmidx
              /\ mg_rpmhdr' = a.rpmhdr
              /\ mg_err' = a.err
              /\ mg_pc' = IF a.err = "none" THEN "run" ELSE "failed"
              /\ mg_last' = pkg
              /\ mg_seen' = mg_seen \cup VerifiedContents(pkg)
              /\ mg_prev' = [rpmidx |-> mg_rpmidx, rpmhdr |-> mg_rpmhdr]
    /\ mg_count' = mg_count + 1
    /\ UNCHANGED <<mg_which, mg_cz, mg_outfile, mg_outfile0, mg_x>>

\* The end of merge_rpms, rpmiter exhausted: open(outfile, 'wb'), then
\* d.dino.write_to(outf).
MergeWrite ==
    /\ mg_pc = "run"
    /\ LET s == ArchiveSections(mg_fileidx, mg_filedata, mg_rpmidx, mg_rpmhdr)
           w == DinoWriteTo(0, s.sectab, s.namtab)
       IN  /\ mg_outfile' = [exists |-> TRUE, data |-> w.file]
           /\ mg_err' = w.err
           /\ mg_pc' = IF w.err = "none" THEN "done" ELSE "failed"
    /\ UNCHANGED <<mg_which, mg_cz, mg_count, mg_fileidx, mg_filedata,
                   mg_rpmidx, mg_rpmhdr, mg_outfile0, mg_last, mg_seen,
                   mg_prev, mg_x>>

\* get_rpmhdr(key), then _write_rpm_payload(r, outf), on an archive that
\* holds the sections as merge_rpms built them.
MergeExtract ==
    /\ mg_pc = "run"
    /\ \E i \in 1..Len(mg_rpmidx) :
          LET g == get_rpmhdr(mg_rpmidx, mg_rpmhdr, mg_rpmidx[i][1],
                              PackageSamples)
          IN  mg_x' = [r |-> g.r, payload_order |-> g.payload_order,
                       emitted |-> WriteRpmPayloadOrder(g.r, g.payload_order)]
    /\ mg_pc' = "extracted"
    /\ UNCHANGED <<mg_which, mg_cz, mg_count, mg_fileidx, mg_filedata,
                   mg_rpmidx, mg_rpmhdr, mg_outfile, mg_outfile0, mg_err,
                   mg_last, mg_seen, mg_prev>>

\* C5 (deduplication): after merge_rpms has processed any sequence of
\* packages, every distinct content of a verified regular non-empty file
\* has exactly one entry in the file index, under its dedup digest, and
\* exactly one compressed frame in the file data, the one the entry gives
\* the offset and sizes of; and there are no other entries or frames.
C5_Deduplication ==
    LET frames == FramesOf(mg_filedata, 0)
    IN  /\ IndexCount(mg_fileidx) = Cardinality(mg_seen)
        /\ Len(frames) = Cardinality(mg_seen)
        /\ \A c \in mg_seen :
              /\ Cardinality({ i \in 1..Len(mg_fileidx) :
                     mg_fileidx[i][1] = HashDigest(IdxAlgo, c) }) = 1
              /\ Cardinality({ j \in 1..Len(frames) :
                     frames[j].content = c }) = 1
              /\ \E j \in 1..Len(frames) :
                    /\ frames[j].content = c
                    /\ IndexGet(mg_fileidx, HashDigest(IdxAlgo, c))
                         = <<frames[j].offset, frames[j].size, Len(c)>>

\* Three packages were merged, each with the content ContentA, two of them
\* with the content ContentB, under different paths and digest algorithms.
C5_Witness ==
    /\ mg_pc = "run"
    /\ mg_count = 3
    /\ mg_last.hid = 3
    /\ mg_seen = {ContentA, ContentB}
    /\ Len(mg_rpmidx) = 3
    /\ Len(mg_fileidx) = 2

\* The [offset, offset + size) ranges of the file index.
FileRanges ==
    {[offset |-> mg_fileidx[i][2][1], size |-> mg_fileidx[i][2][2]] :
        i \in 1..Len(mg_fileidx)}

C6_VerifyFailure ==
    /\ []((mg_count > 0 /\ FirstCorrupt(mg_last) # 0) =>
            /\ mg_pc = "failed"
            /\ mg_err = "VerifyError"
            /\ IndexCount(mg_fileidx) = Cardinality(mg_seen)
            /\ Len(FramesOf(mg_filedata, 0)) = Cardinality(mg_seen)
            /\ \A i \in 1..Len(mg_fileidx) :
                  \E c \in mg_seen : mg_fileidx[i][1] = HashDigest(IdxAlgo, c)
            /\ IndexCount(mg_rpmidx) < mg_count
            /\ Len(FramesOf(mg_rpmhdr, 0)) < mg_count
            /\ mg_outfile = mg_outfile0)
    /\ [][(mg_count > 0 /\ FirstCorrupt(mg_last) # 0) => UNCHANGED mergeVars]_vars

\* The second package of a run had a verified file, then a corrupt one.
C6_Witness ==
    /\ mg_pc = "failed"
    /\ mg_err = "VerifyError"
    /\ mg_count = 2
    /\ mg_last.hid = 4
    /\ FirstCorrupt(mg_last) = 2
    /\ ContentX \notin mg_seen
    /\ mg_outfile = NoOutfile
    /\ mg_outfile0 = NoOutfile

\* C9 (payload order): for a package whose payload order differs from its
\* header's file order, get_rpmhdr recovers the payload order stored with
\* the header, and _write_rpm_payload emits the entries in that order.
C9_PayloadOrder ==
    (mg_pc = "extracted" /\
     mg_x.r.order # [i \in 1..Len(mg_x.r.files) |-> i - 1]) =>
        /\ mg_x.payload_order[1] = "order"
        /\ mg_x.payload_order[2] = [i \in 1..Len(mg_x.r.order) |->
                                       <<mg_x.r.order[i]>>]
        /\ mg_x.emitted = mg_x.r.order

\* C12 (no partial output): when merge_rpms has ended in an error, raised
\* in the loop or by write_to, the output path is as it was when merge_rpms
\* was called: no file if there was none, the same file if there was one.
C12_NoPartialOutput ==
    mg_err # "none" => mg_outfile = mg_outfile0

\* C14 (unsupported compression): get_compressor and get_decompressor
\* raise an error for every id or name that does not stand for ZSTD or XZ,
\* and a merge_rpms called with such an id or name ends in an error with
\* no package taken, no byte in the file data or header sections, and the
\* output path as it was.
C14_UnsupportedCompression ==
    ~StandsForXzOrZstd(mg_which) =>
        /\ mg_pc = "looked" =>
              /\ mg_cz.compressor \notin {"none", "xz", "zstd"}
              /\ mg_cz.decompressor \notin {"none", "xz", "zstd"}
        /\ mg_pc \notin {"new", "looked"} =>
              /\ mg_pc = "failed"
              /\ mg_err # "none"
              /\ mg_count = 0
              /\ mg_filedata = <<>>
              /\ mg_rpmhdr = <<>>
              /\ mg_outfile = mg_outfile0

\* get_compressor and get_decompressor were called with the name 'lz4',
\* or merge_rpms with the id of ZLIB and a file at the output path.
C14_Witness ==
    \/ /\ mg_pc = "looked"
       /\ mg_which = WhichStr(<<108, 122, 52>>)
       /\ mg_cz.compressor = "NotImplementedError"
    \/ /\ mg_pc = "failed"
       /\ mg_which = WhichInt(1)
       /\ mg_err = "NotImplementedError"
       /\ mg_outfile0.exists

\* C29 (order annotation): the header bytes stored for a package end in a
\* payload order if and only if the sequence of the payload's entry names
\* differs from the header file list; the order has one element for each
\* payload entry, entries without data included, the n-th the header index
\* of the n-th payload entry.
C29_OrderAnnotation ==
    (mg_pc = "run" /\ mg_count > 0) =>
        LET frames == FramesOf(mg_rpmhdr, 0)
            hdr    == frames[Len(frames)].content
            base   == Len(RetainedHeader(mg_last))
            extra  == SubSeq(hdr, base + 1, Len(hdr))
        IN  /\ SubSeq(hdr, 1, base) = RetainedHeader(mg_last)
            /\ (extra # <<>>) <=>
                  (PayloadNames(mg_last) # HeaderFileList(mg_last))
            /\ extra # <<>> => extra = PackOrder(PayloadNames(mg_last))

\* C15 (duplicate headers): the header section holds one compressed frame
\* for each dedup digest of stored header bytes, the package index one
\* entry for it, and every frame of the header section is the one an entry
\* of the index gives the offset and sizes of.
C15_DuplicateHeaders ==
    LET frames == FramesOf(mg_rpmhdr, 0)
    IN  /\ Len(frames) = IndexCount(mg_rpmidx)
        /\ \A j \in 1..Len(frames) :
              IndexGet(mg_rpmidx, HashDigest(IdxAlgo, frames[j].content))
                  = <<frames[j].offset, frames[j].size, Len(frames[j].content)>>

\* C16 (header digest): after a pass of the loop on a package that records
\* a SHA256 of its header, the header section or the package index has
\* changed only if the digest of the header bytes without the payload
\* order is the recorded one; if it is not, and the files verified, the
\* run has ended with VerifyError with both as they were before the pass.
C16_HeaderDigest ==
    (mg_count > 0 /\ mg_pc \in {"run", "failed"} /\ mg_last.sigkey # <<>>) =>
        /\ (mg_rpmhdr # mg_prev.rpmhdr \/ mg_rpmidx # mg_prev.rpmidx) =>
              mg_last.sigkey = Hexlify(HashDigest(IdxAlgo, HdrBytes(mg_last)))
        /\ (mg_last.sigkey # Hexlify(HashDigest(IdxAlgo, HdrBytes(mg_last)))
            /\ FirstCorrupt(mg_last) = 0) =>
              /\ mg_pc = "failed"
              /\ mg_err = "VerifyError"
              /\ mg_rpmhdr = mg_prev.rpmhdr
              /\ mg_rpmidx = mg_prev.rpmidx

\* The second package of a run records a digest its header does not have;
\* the first package's header was stored.
C16_Witness ==
    /\ mg_pc = "failed"
    /\ mg_err = "VerifyError"
    /\ mg_count = 2
    /\ mg_last.hid = 6
    /\ mg_last.sigkey # Hexlify(HashDigest(IdxAlgo, HdrBytes(mg_last)))
    /\ Len(mg_rpmidx) = 1
    /\ mg_rpmhdr = mg_prev.rpmhdr

---------------------------------------------------------------------------
(* Specifications                                                          *)

\* The variables of the other parts, which a step of one part leaves alone.
notVarintVars == <<strtabVars, indexVars, dinoVars, mergeVars, wideVars,
                   vercmpVars, copyVars, viewVars, infoVars, dispatchVars,
                   blobVars, frameVars>>

notStrTabVars == <<varintVars, indexVars, dinoVars, mergeVars, wideVars,
                   vercmpVars, copyVars, viewVars, infoVars, dispatchVars,
                   blobVars, frameVars>>

notIndexVars == <<varintVars, strtabVars, dinoVars, mergeVars, wideVars,
                  vercmpVars, copyVars, viewVars, infoVars, dispatchVars,
                  blobVars, frameVars>>

notDinoVars == <<varintVars, strtabVars, indexVars, mergeVars, wideVars,
                 vercmpVars, copyVars, viewVars, infoVars, dispatchVars,
                 blobVars, frameVars>>

notMergeVars == <<varintVars, strtabVars, indexVars, dinoVars, wideVars,
                  vercmpVars, copyVars, viewVars, infoVars, dispatchVars,
                  blobVars, frameVars>>

notWideVars == <<varintVars, strtabVars, indexVars, dinoVars, mergeVars,
                 vercmpVars, copyVars, viewVars, infoVars, dispatchVars,
                 blobVars, frameVars>>

notVercmpVars == <<varintVars, strtabVars, indexVars, dinoVars, mergeVars,
                   wideVars, copyVars, viewVars, infoVars, dispatchVars,
                   blobVars, frameVars>>

notCopyVars == <<varintVars, strtabVars, indexVars, dinoVars, mergeVars,
                 wideVars, vercmpVars, viewVars, infoVars, dispatchVars,
                 blobVars, frameVars>>

notViewVars == <<varintVars, strtabVars, indexVars, dinoVars, mergeVars,
                 wideVars, vercmpVars, copyVars, infoVars, dispatchVars,
                 blobVars, frameVars>>

notInfoVars == <<varintVars, strtabVars, indexVars, dinoVars, mergeVars,
                 wideVars, vercmpVars, copyVars, viewVars, dispatchVars,
                 blobVars, frameVars>>

notDispatchVars == <<varintVars, strtabVars, indexVars, dinoVars, mergeVars,
                     wideVars, vercmpVars, copyVars, viewVars, infoVars,
                     blobVars, frameVars>>

notBlobVars == <<varintVars, strtabVars, indexVars, dinoVars, mergeVars,
                 wideVars, vercmpVars, copyVars, viewVars, infoVars,
                 dispatchVars, frameVars>>

notFrameVars == <<varintVars, strtabVars, indexVars, dinoVars, mergeVars,
                  wideVars, vercmpVars, copyVars, viewVars, infoVars,
                  dispatchVars, blobVars>>

InitVarint ==
    VarintStart /\ StrTabIdle /\ IndexIdle /\ DinoIdle /\ MergeIdle /\
    WideIdle /\ VercmpIdle /\ CopyIdle /\ ViewIdle /\ InfoIdle /\
    DispatchIdle /\ BlobIdle /\ FrameIdle

NextVarint ==
    \/ VarintEncode /\ UNCHANGED notVarintVars
    \/ VarintDecode /\ UNCHANGED notVarintVars

SpecVarint == InitVarint /\ [][NextVarint]_vars

InitStrTab ==
    StrTabStart /\ VarintIdle /\ IndexIdle /\ DinoIdle /\ MergeIdle /\
    WideIdle /\ VercmpIdle /\ CopyIdle /\ ViewIdle /\ InfoIdle /\
    DispatchIdle /\ BlobIdle /\ FrameIdle

NextStrTab ==
    \/ StrTabAdd /\ UNCHANGED notStrTabVars

SpecStrTab == InitStrTab /\ [][NextStrTab]_vars

InitIndex ==
    IndexStart /\ VarintIdle /\ StrTabIdle /\ DinoIdle /\ MergeIdle /\
    WideIdle /\ VercmpIdle /\ CopyIdle /\ ViewIdle /\ InfoIdle /\
    DispatchIdle /\ BlobIdle /\ FrameIdle

NextIndex ==
    \/ IndexAddStep /\ UNCHANGED notIndexVars
    \/ IndexWriteStep /\ UNCHANGED notIndexVars
    \/ IndexReadStep /\ UNCHANGED notIndexVars
    \/ IndexAddOddKey /\ UNCHANGED notIndexVars

SpecIndex == InitIndex /\ [][NextIndex]_vars

InitDino ==
    DinoStart /\ VarintIdle /\ StrTabIdle /\ IndexIdle /\ MergeIdle /\
    WideIdle /\ VercmpIdle /\ CopyIdle /\ ViewIdle /\ InfoIdle /\
    DispatchIdle /\ BlobIdle /\ FrameIdle

NextDino ==
    \/ DinoAddSection /\ UNCHANGED notDinoVars
    \/ DinoWrite /\ UNCHANGED notDinoVars
    \/ DinoFromFile /\ UNCHANGED notDinoVars
    \/ DinoPackDhdr /\ UNCHANGED notDinoVars
    \/ DinoReadDhdr /\ UNCHANGED notDinoVars
    \/ DinoFromFileForeign /\ UNCHANGED notDinoVars
    \/ DinoPackShdr /\ UNCHANGED notDinoVars

SpecDino == InitDino /\ [][NextDino]_vars

InitMerge ==
    MergeStart /\ VarintIdle /\ StrTabIdle /\ IndexIdle /\ DinoIdle /\
    WideIdle /\ VercmpIdle /\ CopyIdle /\ ViewIdle /\ InfoIdle /\
    DispatchIdle /\ BlobIdle /\ FrameIdle

NextMerge ==
    \/ MergePackage /\ UNCHANGED notMergeVars
    \/ MergeWrite /\ UNCHANGED notMergeVars
    \/ MergeExtract /\ UNCHANGED notMergeVars
    \/ MergeLookup /\ UNCHANGED notMergeVars
    \/ MergeOpen /\ UNCHANGED notMergeVars

SpecMerge == InitMerge /\ [][NextMerge]_vars

InitWide ==
    WideStart /\ StrTabIdle /\ IndexIdle /\ DinoIdle /\ MergeIdle /\
    VarintIdle /\ VercmpIdle /\ CopyIdle /\ ViewIdle /\ InfoIdle /\
    DispatchIdle /\ BlobIdle /\ FrameIdle

NextWide ==
    \/ WidePackHdr /\ UNCHANGED notWideVars
    \/ WideValPack /\ UNCHANGED notWideVars
    \/ WidePackDhdr /\ UNCHANGED notWideVars

SpecWide == InitWide /\ [][NextWide]_vars

InitVercmp ==
    VercmpStart /\ StrTabIdle /\ IndexIdle /\ DinoIdle /\ MergeIdle /\
    WideIdle /\ VarintIdle /\ CopyIdle /\ ViewIdle /\ InfoIdle /\
    DispatchIdle /\ BlobIdle /\ FrameIdle

NextVercmp ==
    \/ VercmpCompare /\ UNCHANGED notVercmpVars

SpecVercmp == InitVercmp /\ [][NextVercmp]_vars

InitCopy ==
    CopyStart /\ StrTabIdle /\ IndexIdle /\ DinoIdle /\ MergeIdle /\
    WideIdle /\ VercmpIdle /\ VarintIdle /\ ViewIdle /\ InfoIdle /\
    DispatchIdle /\ BlobIdle /\ FrameIdle

NextCopy ==
    \/ CopyStream /\ UNCHANGED notCopyVars

SpecCopy == InitCopy /\ [][NextCopy]_vars

InitView ==
    ViewStart /\ StrTabIdle /\ IndexIdle /\ DinoIdle /\ MergeIdle /\
    WideIdle /\ VercmpIdle /\ CopyIdle /\ VarintIdle /\ InfoIdle /\
    DispatchIdle /\ BlobIdle /\ FrameIdle

NextView ==
    \/ ViewRead /\ UNCHANGED notViewVars
    \/ ViewWriteTo /\ UNCHANGED notViewVars
    \/ ViewCopyStep /\ UNCHANGED notViewVars

SpecView == InitView /\ [][NextView]_vars

InitInfo ==
    InfoStart /\ StrTabIdle /\ IndexIdle /\ DinoIdle /\ MergeIdle /\
    WideIdle /\ VercmpIdle /\ CopyIdle /\ ViewIdle /\ VarintIdle /\
    DispatchIdle /\ BlobIdle /\ FrameIdle

NextInfo ==
    \/ InfoToInt /\ UNCHANGED notInfoVars
    \/ InfoFromInt /\ UNCHANGED notInfoVars
    \/ InfoFromHdr /\ UNCHANGED notInfoVars

SpecInfo == InitInfo /\ [][NextInfo]_vars

InitDispatch ==
    DispatchStart /\ StrTabIdle /\ IndexIdle /\ DinoIdle /\ MergeIdle /\
    WideIdle /\ VercmpIdle /\ CopyIdle /\ ViewIdle /\ InfoIdle /\
    VarintIdle /\ BlobIdle /\ FrameIdle

NextDispatch ==
    \/ DispatchCall /\ UNCHANGED notDispatchVars
    \/ DispatchNewRun /\ UNCHANGED notDispatchVars

SpecDispatch == InitDispatch /\ [][NextDispatch]_vars

InitBlob ==
    BlobStart /\ StrTabIdle /\ IndexIdle /\ DinoIdle /\ MergeIdle /\
    WideIdle /\ VercmpIdle /\ CopyIdle /\ ViewIdle /\ InfoIdle /\
    DispatchIdle /\ VarintIdle /\ FrameIdle

NextBlob ==
    \/ BlobAppend /\ UNCHANGED notBlobVars
    \/ BlobSeek /\ UNCHANGED notBlobVars
    \/ BlobSize /\ UNCHANGED notBlobVars
    \/ BlobWriteTo /\ UNCHANGED notBlobVars

SpecBlob == InitBlob /\ [][NextBlob]_vars

InitFrame ==
    FrameStart /\ StrTabIdle /\ IndexIdle /\ DinoIdle /\ MergeIdle /\
    WideIdle /\ VercmpIdle /\ CopyIdle /\ ViewIdle /\ InfoIdle /\
    DispatchIdle /\ BlobIdle /\ VarintIdle

NextFrame ==
    \/ FrameStore /\ UNCHANGED notFrameVars
    \/ FrameWriteFile /\ UNCHANGED notFrameVars

SpecFrame == InitFrame /\ [][NextFrame]_vars

===========================================================================
